---- MODULE Spec2Model ----
(***************************************************************************)
(* Model of the DynamoDB data-access core of soap-note-chatbot: the        *)
(* in-memory emulator (MockDynamoDb.service.ts) driven by asynchronous     *)
(* callers.  A call of an async method runs synchronously up to its first  *)
(* await; every await of a pending promise is a point where other callers  *)
(* may run.                                                                *)
(***************************************************************************)
EXTENDS Integers, Sequences, FiniteSets, TLC

(***************************************************************************)
(* Values.  A JavaScript value is a tagged pair: t is the typeof tag       *)
(* ("S" string, "N" number, "U" undefined) and v the payload.  Strings are *)
(* represented by their rank in lexicographic order, so that < on the      *)
(* payload is the JavaScript string comparison.                            *)
(***************************************************************************)
Str(n) == [t |-> "S", v |-> n]
Num(n) == [t |-> "N", v |-> n]
UNDEF == [t |-> "U", v |-> 0]

\* string literals used by the callers, by lexicographic rank
ACTIVE == Str(1)      \* "active"
INACTIVE == Str(2)    \* "inactive"
MEMO == Str(3)        \* "memo"
U1 == Str(4)          \* "u1"
U2 == Str(5)          \* "u2"
UNKNOWN == Str(6)     \* "unknown"
\* strings of digits sort before the words
D1 == Str(-4)         \* "1"
D12 == Str(-3)        \* "12"
D2 == Str(-2)         \* "2"
\* the empty string, and two ISO 8601 instants: an earlier one and the value
\* of new Date().toISOString() during the calls
EMPTY == Str(-5)      \* ""
Earlier == Str(-1)    \* "2025-01-01T00:00:00.000Z"
Now == Str(0)         \* "2026-01-01T00:00:00.000Z"

\* cap on the counter attribute that ADD increments
MaxAge == 2

\* attribute names of an item, in the order Array.prototype.sort gives them
AttrOrder == <<"age", "createdAt", "note", "pk", "sk", "status", "updatedAt">>
Attrs == {AttrOrder[i] : i \in 1..Len(AttrOrder)}

\* the key schema the service is constructed with (composite key)
KeySchema == << <<"pk", "string">>, <<"sk", "number">> >>
partitionKey == KeySchema[1]
HasSortKey == Len(KeySchema) = 2
sortKey == KeySchema[Len(KeySchema)]
KeyAttrs == IF HasSortKey THEN {partitionKey[1], sortKey[1]} ELSE {partitionKey[1]}

\* an absent item (undefined) and an absent key
NoItem == [a \in Attrs |-> UNDEF]
NoKey == [a \in KeyAttrs |-> UNDEF]

MkItem(pk, sk, status, age, note) ==
    [a \in Attrs |-> CASE a = "pk" -> pk
                       [] a = "sk" -> sk
                       [] a = "status" -> status
                       [] a = "age" -> age
                       [] a = "note" -> note
                       [] OTHER -> UNDEF]
MkKey(pk, sk) == [a \in KeyAttrs |-> IF a = partitionKey[1] THEN pk ELSE sk]

\* the item schema: pk string, sk number, status enum, age positive number,
\* note optional string, createdAt and updatedAt optional strings
SchemaOk(item) ==
    /\ item["pk"].t = "S"
    /\ item["sk"].t = "N"
    /\ item["status"] \in {ACTIVE, INACTIVE}
    /\ item["age"].t = "N" /\ item["age"].v > 0
    /\ item["note"].t \in {"S", "U"}
    /\ item["createdAt"].t \in {"S", "U"}
    /\ item["updatedAt"].t \in {"S", "U"}

(***************************************************************************)
(* serializeKey: attribute names sorted, then JSON.stringify.  The string  *)
(* is represented by the sequence of its (name, value) members.            *)
(***************************************************************************)
serializeKey(key) ==
    LET names == SelectSeq(AttrOrder, LAMBDA a : a \in DOMAIN key)
    IN [i \in 1..Len(names) |-> <<names[i], key[names[i]]>>]

\* buildKey: the partition key and, when the schema has one, the sort key
buildKey(key) ==
    [a \in KeyAttrs |-> key[a]]

(***************************************************************************)
(* The table: a JavaScript Map from serialized key to item, kept as the    *)
(* sequence of its entries in insertion order.                             *)
(***************************************************************************)
MapHas(st, k) == \E i \in 1..Len(st) : st[i].k = k
MapGet(st, k) ==
    IF MapHas(st, k)
    THEN st[CHOOSE i \in 1..Len(st) : st[i].k = k].v
    ELSE NoItem
\* mutant: set() leaves an existing entry as it is
MapSet_KeepExisting(st, k, v) ==
    IF MapHas(st, k) THEN st ELSE Append(st, [k |-> k, v |-> v])
MapSet(st, k, v) ==
    IF MapHas(st, k)
    THEN [i \in 1..Len(st) |-> IF st[i].k = k THEN [k |-> k, v |-> v] ELSE st[i]]
    ELSE Append(st, [k |-> k, v |-> v])
\* mutant: delete() empties the entry and leaves it in the map
MapDelete_Tombstone(st, k) ==
    [i \in 1..Len(st) |-> IF st[i].k = k THEN [k |-> k, v |-> NoItem] ELSE st[i]]
MapDelete(st, k) == SelectSeq(st, LAMBDA e : e.k # k)

(***************************************************************************)
(* Condition expressions.  An expression is the sequence of its tokens;    *)
(* a token is a connective (AND, OR, NOT), a function call                 *)
(* (attribute_exists, attribute_not_exists, other), or a comparison "cmp"  *)
(* of attribute a with value v under operator op.  Attribute names and     *)
(* values are written after alias resolution; names/values tell whether    *)
(* the caller supplied the two alias maps at all.                          *)
(***************************************************************************)
Tok(k, a, op, v) == [k |-> k, a |-> a, op |-> op, v |-> v]
AND == Tok("AND", "", "", UNDEF)
OR == Tok("OR", "", "", UNDEF)
NOT == Tok("NOT", "", "", UNDEF)
attribute_not_exists(a) == Tok("attribute_not_exists", a, "", UNDEF)
attribute_exists(a) == Tok("attribute_exists", a, "", UNDEF)
Cmp(a, op, v) == Tok("cmp", a, op, v)
OtherForm == Tok("other", "", "", UNDEF)

MkCond(expr, names, values) == [expr |-> expr, names |-> names, values |-> values]
NoCond == MkCond(<< >>, FALSE, FALSE)

HasTok(expr, k) == \E i \in 1..Len(expr) : expr[i].k = k
FirstTok(expr, k) == expr[CHOOSE i \in 1..Len(expr) :
                            /\ expr[i].k = k
                            /\ \A j \in 1..(i - 1) : expr[j].k # k]

\* String.prototype.split on a connective
RECURSIVE SplitOn(_, _)
SplitOn(expr, k) ==
    IF ~HasTok(expr, k)
    THEN <<expr>>
    ELSE LET i == CHOOSE n \in 1..Len(expr) :
                      /\ expr[n].k = k
                      /\ \A j \in 1..(n - 1) : expr[j].k # k
         IN <<SubSeq(expr, 1, i - 1)>> \o SplitOn(SubSeq(expr, i + 1, Len(expr)), k)

\* the ordering comparisons of two numbers or of two strings
Ordered(op, x, y) ==
    CASE op = ">" -> x > y
      [] op = "<" -> x < y
      [] op = ">=" -> x >= y
      [] op = "<=" -> x <= y
      [] OTHER -> FALSE

Compare(op, actualValue, expectedValue) ==
    IF op = "="
    THEN actualValue = expectedValue
    ELSE IF op \in {">", "<", ">=", "<="}
         THEN IF actualValue.t = "N" /\ expectedValue.t = "N"
              THEN Ordered(op, actualValue.v, expectedValue.v)
              ELSE IF actualValue.t = "S" /\ expectedValue.t = "S"
                   THEN Ordered(op, actualValue.v, expectedValue.v)
                   ELSE FALSE
         ELSE FALSE

RECURSIVE evaluateCondition(_, _, _, _)
evaluateCondition(item, expr, names, values) ==
    IF expr = << >>
    THEN TRUE
    ELSE IF HasTok(expr, "AND")
    THEN LET parts == SplitOn(expr, "AND")
         IN \A i \in 1..Len(parts) : evaluateCondition(item, parts[i], names, values)
    ELSE IF HasTok(expr, "OR")
    THEN LET parts == SplitOn(expr, "OR")
         IN \E i \in 1..Len(parts) : evaluateCondition(item, parts[i], names, values)
    ELSE IF HasTok(expr, "attribute_not_exists")
    THEN item = NoItem \/ item[FirstTok(expr, "attribute_not_exists").a] = UNDEF
    ELSE IF HasTok(expr, "attribute_exists")
    THEN item # NoItem /\ item[FirstTok(expr, "attribute_exists").a] # UNDEF
    ELSE IF HasTok(expr, "cmp") /\ item # NoItem /\ names /\ values
    THEN LET c == FirstTok(expr, "cmp")
         IN Compare(c.op, item[c.a], c.v)
    ELSE FALSE

\* mutant: the condition is evaluated on a stale "no item" observation
EvalCond_Stale(item, cond) == evaluateCondition(NoItem, cond.expr, cond.names, cond.values)
EvalCond(item, cond) == evaluateCondition(item, cond.expr, cond.names, cond.values)

(***************************************************************************)
(* Update expressions: the SET assignments and the ADD clauses, each a     *)
(* sequence of (attribute, value) pairs after alias resolution.            *)
(***************************************************************************)
Asg(a, v) == [a |-> a, v |-> v]
MkUpdate(set, add) == [present |-> TRUE, set |-> set, add |-> add]
NoUpdate == [present |-> FALSE, set |-> << >>, add |-> << >>]

RECURSIVE ApplySet(_, _)
ApplySet(item, asgs) ==
    IF asgs = << >>
    THEN item
    ELSE LET h == Head(asgs)
         IN ApplySet(IF h.v # UNDEF THEN [item EXCEPT ![h.a] = h.v] ELSE item,
                     Tail(asgs))

RECURSIVE ApplyAdd(_, _)
ApplyAdd(item, asgs) ==
    IF asgs = << >>
    THEN item
    ELSE LET h == Head(asgs)
             currentValue == IF item[h.a].t = "N" THEN item[h.a].v ELSE 0
         IN ApplyAdd(IF h.v.t = "N"
                     THEN [item EXCEPT ![h.a] = Num(currentValue + h.v.v)]
                     ELSE item,
                     Tail(asgs))

applyUpdateExpression(item, upd) == ApplyAdd(ApplySet(item, upd.set), upd.add)

(***************************************************************************)
(* Error taxonomy: the code and status of each error class.                *)
(***************************************************************************)
OK == "OK"
NOT_FOUND == "NOT_FOUND"
CONDITIONAL_CHECK_FAILED == "CONDITIONAL_CHECK_FAILED"
VALIDATION_ERROR == "VALIDATION_ERROR"
TRANSACTION_CANCELLED == "TRANSACTION_CANCELLED"
TABLE_NOT_FOUND == "TABLE_NOT_FOUND"
UNKNOWN_ERROR == "UNKNOWN_ERROR"

StatusCode(code) ==
    CASE code = NOT_FOUND -> 404
      [] code = CONDITIONAL_CHECK_FAILED -> 400
      [] code = VALIDATION_ERROR -> 422
      [] code = TRANSACTION_CANCELLED -> 400
      [] code = TABLE_NOT_FOUND -> 404
      [] code = UNKNOWN_ERROR -> 500
      [] OTHER -> 0

(***************************************************************************)
(* The emulator's item operations.  Each is a function of the table and    *)
(* the arguments, giving the table after the call (st), the code of the    *)
(* error thrown (OK when none) and the value returned.                     *)
(***************************************************************************)
Outcome(st, code, value) == [st |-> st, code |-> code, value |-> value]

\* validateAndParseItem throws DynamoDbValidationError when schema.parse does
validateAndParseItem(item) == SchemaOk(item)

\* mutant: a missing item is reported as an error
getItem_NotFound(st, key) ==
    LET keyStr == serializeKey(buildKey(key))
        item == MapGet(st, keyStr)
    IN IF item = NoItem
       THEN Outcome(st, NOT_FOUND, NoItem)
       ELSE IF validateAndParseItem(item)
            THEN Outcome(st, OK, item)
            ELSE Outcome(st, VALIDATION_ERROR, NoItem)
getItem(st, key) ==
    LET keyStr == serializeKey(buildKey(key))
        item == MapGet(st, keyStr)
    IN IF item = NoItem
       THEN Outcome(st, OK, NoItem)
       ELSE IF validateAndParseItem(item)
            THEN Outcome(st, OK, item)
            ELSE Outcome(st, VALIDATION_ERROR, NoItem)

PutOpts(cond, returnValues) == [cond |-> cond, returnValues |-> returnValues]

\* mutant: the put is applied whatever the condition evaluates to
putItem_Unconditional(st, item, options) ==
    LET keyStr == serializeKey(buildKey(item))
        existingItem == MapGet(st, keyStr)
        stored == MapSet(st, keyStr, item)
    IN IF ~validateAndParseItem(item)
       THEN Outcome(st, VALIDATION_ERROR, NoItem)
       ELSE IF options.returnValues = "ALL_OLD" /\ existingItem # NoItem
       THEN Outcome(stored, OK, existingItem)
       ELSE Outcome(stored, OK, NoItem)

putItem(st, item, options) ==
    LET keyStr == serializeKey(buildKey(item))
        existingItem == MapGet(st, keyStr)
        conditionPassed == EvalCond(existingItem, options.cond)
        stored == MapSet(st, keyStr, item)
    IN IF ~conditionPassed
       THEN Outcome(st, CONDITIONAL_CHECK_FAILED, NoItem)
       ELSE IF ~validateAndParseItem(item)
       THEN Outcome(st, VALIDATION_ERROR, NoItem)
       ELSE IF options.returnValues = "ALL_OLD" /\ existingItem # NoItem
       THEN IF validateAndParseItem(existingItem)
            THEN Outcome(stored, OK, existingItem)
            ELSE Outcome(stored, VALIDATION_ERROR, NoItem)
       ELSE Outcome(stored, OK, NoItem)

UpdateOpts(upd, cond, returnValues) ==
    [updateExpression |-> upd, cond |-> cond, returnValues |-> returnValues]

\* mutant: the updated item is stored before it is validated
updateItem_StoreFirst(st, key, options) ==
    LET keyStr == serializeKey(buildKey(key))
        existingItem == MapGet(st, keyStr)
        conditionPassed == EvalCond(existingItem, options.cond)
        updatedItem == applyUpdateExpression(existingItem, options.updateExpression)
        stored == MapSet(st, keyStr, updatedItem)
    IN IF existingItem = NoItem
       THEN Outcome(st, NOT_FOUND, NoItem)
       ELSE IF ~conditionPassed
       THEN Outcome(st, CONDITIONAL_CHECK_FAILED, NoItem)
       ELSE IF ~validateAndParseItem(updatedItem)
       THEN Outcome(stored, VALIDATION_ERROR, NoItem)
       ELSE IF options.returnValues \in {"ALL_OLD", "UPDATED_OLD"}
       THEN Outcome(stored, OK, existingItem)
       ELSE IF options.returnValues \in {"ALL_NEW", "UPDATED_NEW"}
       THEN Outcome(stored, OK, updatedItem)
       ELSE Outcome(stored, OK, NoItem)

\* mutant: the condition is evaluated before the existence check
updateItem_ConditionFirst(st, key, options) ==
    LET keyStr == serializeKey(buildKey(key))
        existingItem == MapGet(st, keyStr)
        conditionPassed == EvalCond(existingItem, options.cond)
        updatedItem == applyUpdateExpression(existingItem, options.updateExpression)
        stored == MapSet(st, keyStr, updatedItem)
    IN IF ~conditionPassed
       THEN Outcome(st, CONDITIONAL_CHECK_FAILED, NoItem)
       ELSE IF existingItem = NoItem
       THEN Outcome(st, NOT_FOUND, NoItem)
       ELSE IF ~validateAndParseItem(updatedItem)
       THEN Outcome(st, VALIDATION_ERROR, NoItem)
       ELSE IF options.returnValues \in {"ALL_OLD", "UPDATED_OLD"}
       THEN Outcome(stored, OK, existingItem)
       ELSE IF options.returnValues \in {"ALL_NEW", "UPDATED_NEW"}
       THEN Outcome(stored, OK, updatedItem)
       ELSE Outcome(stored, OK, NoItem)

updateItem(st, key, options) ==
    LET keyStr == serializeKey(buildKey(key))
        existingItem == MapGet(st, keyStr)
        conditionPassed == EvalCond(existingItem, options.cond)
        updatedItem == applyUpdateExpression(existingItem, options.updateExpression)
        stored == MapSet(st, keyStr, updatedItem)
    IN IF existingItem = NoItem
       THEN Outcome(st, NOT_FOUND, NoItem)
       ELSE IF ~conditionPassed
       THEN Outcome(st, CONDITIONAL_CHECK_FAILED, NoItem)
       ELSE IF ~validateAndParseItem(updatedItem)
       THEN Outcome(st, VALIDATION_ERROR, NoItem)
       ELSE IF options.returnValues \in {"ALL_OLD", "UPDATED_OLD"}
       THEN IF validateAndParseItem(existingItem)
            THEN Outcome(stored, OK, existingItem)
            ELSE Outcome(stored, VALIDATION_ERROR, NoItem)
       ELSE IF options.returnValues \in {"ALL_NEW", "UPDATED_NEW"}
       THEN Outcome(stored, OK, updatedItem)
       ELSE Outcome(stored, OK, NoItem)

\* mutant: deleting a key that has no item succeeds silently
deleteItem_Silent(st, key, options) ==
    LET keyStr == serializeKey(buildKey(key))
        existingItem == MapGet(st, keyStr)
        conditionPassed == EvalCond(existingItem, options.cond)
        removed == MapDelete(st, keyStr)
    IN IF existingItem = NoItem
       THEN Outcome(st, OK, NoItem)
       ELSE IF ~conditionPassed
       THEN Outcome(st, CONDITIONAL_CHECK_FAILED, NoItem)
       ELSE IF options.returnValues = "ALL_OLD"
       THEN Outcome(removed, OK, existingItem)
       ELSE Outcome(removed, OK, NoItem)

deleteItem(st, key, options) ==
    LET keyStr == serializeKey(buildKey(key))
        existingItem == MapGet(st, keyStr)
        conditionPassed == EvalCond(existingItem, options.cond)
        removed == MapDelete(st, keyStr)
    IN IF existingItem = NoItem
       THEN Outcome(st, NOT_FOUND, NoItem)
       ELSE IF ~conditionPassed
       THEN Outcome(st, CONDITIONAL_CHECK_FAILED, NoItem)
       ELSE IF options.returnValues = "ALL_OLD"
       THEN IF validateAndParseItem(existingItem)
            THEN Outcome(removed, OK, existingItem)
            ELSE Outcome(removed, VALIDATION_ERROR, NoItem)
       ELSE Outcome(removed, OK, NoItem)

(***************************************************************************)
(* transactWrite.  A member is {operation, item?, key?, updateExpression?, *)
(* conditionExpression?}.                                                  *)
(***************************************************************************)
Member(operation, item, key, upd, cond) ==
    [operation |-> operation, item |-> item, key |-> key,
     updateExpression |-> upd, cond |-> cond]

\* mutant: the pre-check stops at the first member that is a mutation
PreChecked_UntilMutation(ops) ==
    {j \in 1..Len(ops) :
        /\ ops[j].operation = "conditionCheck" /\ ops[j].key # NoKey
        /\ \A i \in 1..(j - 1) : ops[i].operation = "conditionCheck"}

\* the members the first loop examines: every conditionCheck that has a key
PreChecked(ops) ==
    {j \in 1..Len(ops) : ops[j].operation = "conditionCheck" /\ ops[j].key # NoKey}

\* first loop: the first examined member whose condition is false (0: none)
PreCheckFailure(st, ops) ==
    LET failing == {j \in PreChecked(ops) :
                      ~EvalCond(MapGet(st, serializeKey(buildKey(ops[j].key))),
                                ops[j].cond)}
    IN IF failing = {} THEN 0
       ELSE CHOOSE j \in failing : \A i \in failing : j <= i

\* the item a member's condition is evaluated on: the one stored under the
\* member's key (a put takes the key from its item)
MemberKey(m) == IF m.operation = "put" THEN buildKey(m.item) ELSE m.key
ConditionsAt(st, ops) ==
    [j \in 1..Len(ops) |-> EvalCond(MapGet(st, serializeKey(MemberKey(ops[j]))), ops[j].cond)]

\* second loop: the members that lead to a call of putItem/updateItem/deleteItem
Calls(m) ==
    \/ m.operation = "put" /\ m.item # NoItem
    \/ m.operation = "update" /\ m.key # NoKey /\ m.updateExpression.present
    \/ m.operation = "delete" /\ m.key # NoKey

\* the first member at or after position i that makes a call (0: none)
NextCall(ops, i) ==
    LET calling == {j \in i..Len(ops) : Calls(ops[j])}
    IN IF calling = {} THEN 0
       ELSE CHOOSE j \in calling : \A k \in calling : j <= k

\* the call a member of the second loop makes
MemberCall(st, m) ==
    CASE m.operation = "put" -> putItem(st, m.item, PutOpts(m.cond, "NONE"))
      [] m.operation = "update" ->
            updateItem(st, m.key, UpdateOpts(m.updateExpression, m.cond, "NONE"))
      [] OTHER -> deleteItem(st, m.key, PutOpts(m.cond, "NONE"))

(***************************************************************************)
(* Callers and their inputs.                                               *)
(***************************************************************************)
Callers == {"c1", "c2"}
\* the callers that issue transactions
TxCallers == {"c1"}

K1 == MkKey(U1, Num(1))
K2 == MkKey(U2, Num(1))
Keys == {K1, K2}

A1 == MkItem(U1, Num(1), ACTIVE, Num(1), UNDEF)
A2 == MkItem(U1, Num(1), INACTIVE, Num(1), MEMO)
B1 == MkItem(U2, Num(1), ACTIVE, Num(1), UNDEF)
BadItem == MkItem(U2, Num(1), UNKNOWN, Num(1), UNDEF)
PutItems == {A1, A2, B1, BadItem}

NotExistsPk == MkCond(<<attribute_not_exists("pk")>>, FALSE, FALSE)
ExistsPk == MkCond(<<attribute_exists("pk")>>, FALSE, FALSE)
StatusActive == MkCond(<<Cmp("status", "=", ACTIVE)>>, TRUE, TRUE)

SetInactive == MkUpdate(<<Asg("status", INACTIVE)>>, << >>)
SetUnknown == MkUpdate(<<Asg("status", UNKNOWN)>>, << >>)
AddAge == MkUpdate(<< >>, <<Asg("age", Num(1))>>)

PutInputs ==
    (PutItems \X {NoCond, NotExistsPk} \X {"NONE"})
        \cup ({A1, A2} \X {NoCond} \X {"ALL_OLD"})
UpdateInputs ==
    (Keys \X {SetInactive} \X {NoCond, StatusActive, NotExistsPk} \X {"NONE"})
        \cup (Keys \X {SetUnknown} \X {NoCond} \X {"NONE"})
        \cup ({K1} \X {AddAge} \X {NoCond} \X {"NONE"})
        \cup ({K1} \X {AddAge} \X {StatusActive} \X {"ALL_NEW"})
DeleteInputs ==
    (Keys \X {NoCond, StatusActive} \X {"NONE"})
        \cup ({K1} \X {NoCond} \X {"ALL_OLD"})

TxInputs ==
    { <<Member("put", A1, NoKey, NoUpdate, NotExistsPk),
        Member("put", B1, NoKey, NoUpdate, NotExistsPk)>>,
      <<Member("put", B1, NoKey, NoUpdate, NoCond),
        Member("put", A1, NoKey, NoUpdate, NotExistsPk)>>,
      <<Member("put", A1, NoKey, NoUpdate, NoCond),
        Member("conditionCheck", NoItem, K2, NoUpdate, ExistsPk)>>,
      <<Member("conditionCheck", NoItem, K1, NoUpdate, StatusActive),
        Member("update", NoItem, K1, SetInactive, NoCond),
        Member("delete", NoItem, K2, NoUpdate, NoCond)>>,
      <<Member("put", A1, NoKey, NoUpdate, NoCond),
        Member("put", A2, NoKey, NoUpdate, NotExistsPk)>>,
      <<Member("conditionCheck", NoItem, NoKey, NoUpdate, ExistsPk),
        Member("put", NoItem, NoKey, NoUpdate, NoCond),
        Member("update", NoItem, K1, NoUpdate, NoCond),
        Member("delete", NoItem, NoKey, NoUpdate, NoCond),
        Member("update", NoItem, K1, AddAge, StatusActive)>>,
      <<Member("delete", NoItem, K1, NoUpdate, StatusActive),
        Member("put", B1, NoKey, NoUpdate, NotExistsPk)>> }

(***************************************************************************)
(* State.                                                                  *)
(*   storage   the table of the service (globalMockStorage.get(tableName)) *)
(*   pc        per caller: "idle", "tx" (inside transactWrite, suspended   *)
(*             at an await) or "done" (its promise is settled)             *)
(*   call      per caller: the call in progress                            *)
(*   res       per caller: how the promise settled (code, value)           *)
(*   idx       per caller: position of the transactWrite apply loop        *)
(*   applied   per caller: members of the transaction applied so far       *)
(*   failedAt  per caller: member whose condition evaluated false (0: none)*)
(*   atStart   per caller: for each member of the transaction, the value   *)
(*             its condition has on the table as it was when transactWrite *)
(*             was called                                                  *)
(*   acc       per caller: the results batchGet has collected so far       *)
(*   net       the networked batchWrite call and its backend exchange      *)
(*   qb        the query/scan builder in use and the result of execute()   *)
(*   prod      the networked item operation or scan stream in progress:    *)
(*             the call, the request sent and the backend's response       *)
(***************************************************************************)
VARIABLES storage, pc, call, res, idx, applied, failedAt, atStart, acc, net, qb, prod,
          env, mock, users
vars == <<storage, pc, call, res, idx, applied, failedAt, atStart, acc, net, qb, prod,
          env, mock, users>>

\* backend selection, the process-wide emulator tables, the user service
services == <<env, mock, users>>
\* the state of the networked implementation and of the builders
others == <<net, qb, prod, services>>
\* everything but the networked item operation
emulatorState ==
    <<storage, pc, call, res, idx, applied, failedAt, atStart, acc, net, qb, services>>
\* the state of the emulator and of its callers
emulator ==
    <<storage, pc, call, res, idx, applied, failedAt, atStart, acc, qb, prod, services>>
\* one table and its callers, the networked implementation and the builders
table == <<storage, pc, call, res, idx, applied, failedAt, atStart, acc, net, qb, prod>>

\* process.env before anything is set, and no implementation resolved
Unset == [defined |-> FALSE, text |-> << >>]
NoEnv == [CLASS_RESOLVER_OVERRIDE |-> Unset, NODE_ENV |-> Unset, resolved |-> "none"]

\* globalMockStorage is an empty Map, no Map of a table exists, no service
\* instance has been constructed
TableNames == {"users", "notes"}
NoMock ==
    [globalMockStorage |-> [name \in TableNames |-> 0], maps |-> << >>, instances |-> << >>]

\* the user table is empty and no call of the user service is in progress
NoUser == [id |-> 0, email |-> ""]
NoUserCall ==
    [pc |-> "idle", op |-> "none", email |-> "", userId |-> 0, existingUser |-> NoUser,
     held |-> FALSE, wrote |-> FALSE, result |-> "none"]
NoUsers == [userDb |-> << >>, generated |-> 0, calls |-> [c \in Callers |-> NoUserCall]]

\* no networked call in progress, no builder in use
NoNet ==
    [pc |-> "idle", n |-> 0, i |-> 0, phase |-> "none", request |-> {},
     unprocessed |-> {}, processed |-> {}, started |-> {}, answer |-> "none",
     retryCount |-> 0, sends |-> 0, delay |-> 0, code |-> "PENDING", status |-> 0, message |-> ""]
NoSortKeyCondition == [operator |-> "none", value |-> UNDEF, start |-> UNDEF, end |-> UNDEF]
NoResult ==
    [executed |-> FALSE, items |-> << >>, lastEvaluatedKey |-> NoKey,
     count |-> 0, scannedCount |-> 0]
\* what an iteration over a streaming scan has yielded so far
NoStream == [done |-> FALSE, batches |-> << >>]
NoBuilder ==
    [kind |-> "none", partitionKeyValue |-> UNDEF,
     sortKeyCondition |-> NoSortKeyCondition, limitValue |-> UNDEF,
     scanIndexForwardFlag |-> TRUE, filter |-> NoCond, result |-> NoResult,
     stream |-> NoStream, indexName |-> ""]

Call(op, item, key, upd, cond, returnValues, ops) ==
    [op |-> op, item |-> item, key |-> key, updateExpression |-> upd,
     cond |-> cond, returnValues |-> returnValues, ops |-> ops]
NoCall == Call("none", NoItem, NoKey, NoUpdate, NoCond, "NONE", << >>)
Settled(code, value) == [code |-> code, status |-> StatusCode(code), value |-> value]
NoRes == Settled("PENDING", NoItem)

\* no networked item operation in progress: nothing sent, nothing answered
NoRequest ==
    [command |-> "none", Item |-> NoItem, Key |-> NoKey,
     UpdateExpression |-> NoUpdate, ExclusiveStartKey |-> NoKey,
     KeyConditionExpression |-> << >>, ExpressionAttributeValues |-> << >>]
NoError == [name |-> "", message |-> ""]
NoAnswer ==
    [kind |-> "none", Item |-> NoItem, Attributes |-> NoItem, Items |-> << >>,
     LastEvaluatedKey |-> NoKey, error |-> NoError]
\* the value aliases of a key condition expression, none bound
NoValues == [pkval |-> UNDEF, skval |-> UNDEF, skstart |-> UNDEF, skend |-> UNDEF]
NoProd ==
    [pc |-> "idle", op |-> "none", item |-> NoItem, key |-> NoKey,
     options |-> [updateExpression |-> NoUpdate, cond |-> NoCond, returnValues |-> "NONE"],
     held |-> FALSE, request |-> NoRequest, answer |-> NoAnswer, result |-> NoRes,
     items |-> << >>, pages |-> 0, batches |-> << >>,
     keyConditionExpression |-> << >>, expressionAttributeValues |-> NoValues,
     conditions |-> << >>]
ProdOff == [NoProd EXCEPT !.pc = "off"]

\* the state after construction: the callers of the emulator are at pc0, the
\* networked implementation at net0 and prod0
InitWith(pc0, net0, prod0) ==
    /\ storage = << >>
    /\ pc = [c \in Callers |-> pc0]
    /\ call = [c \in Callers |-> NoCall]
    /\ res = [c \in Callers |-> NoRes]
    /\ idx = [c \in Callers |-> 0]
    /\ applied = [c \in Callers |-> 0]
    /\ failedAt = [c \in Callers |-> 0]
    /\ atStart = [c \in Callers |-> << >>]
    /\ acc = [c \in Callers |-> << >>]
    /\ net = net0
    /\ qb = NoBuilder
    /\ prod = prod0
    /\ env = NoEnv
    /\ mock = NoMock
    /\ users = NoUsers

Init == InitWith("idle", NoNet, ProdOff)

\* an item operation runs to completion in the step that calls it
Finish(c, callRec, r) ==
    /\ storage' = r.st
    /\ pc' = [pc EXCEPT ![c] = "done"]
    /\ call' = [call EXCEPT ![c] = callRec]
    /\ res' = [res EXCEPT ![c] = Settled(r.code, r.value)]
    /\ UNCHANGED <<idx, applied, failedAt, atStart, acc, others>>

AgeBounded(st) == \A i \in 1..Len(st) : st[i].v["age"].t = "N" => st[i].v["age"].v <= MaxAge

GetItem(c) ==
    /\ pc[c] = "idle"
    /\ \E key \in Keys :
          Finish(c, Call("getItem", NoItem, key, NoUpdate, NoCond, "NONE", << >>),
                 getItem(storage, key))

PutItemFrom(c, inputs) ==
    /\ pc[c] = "idle"
    /\ \E in \in inputs :
          Finish(c, Call("putItem", in[1], NoKey, NoUpdate, in[2], in[3], << >>),
                 putItem(storage, in[1], PutOpts(in[2], in[3])))

PutItem(c) == PutItemFrom(c, PutInputs)

UpdateItem(c) ==
    /\ pc[c] = "idle"
    /\ \E in \in UpdateInputs :
          LET r == updateItem(storage, in[1], UpdateOpts(in[2], in[3], in[4]))
          IN /\ AgeBounded(r.st)
             /\ Finish(c, Call("updateItem", NoItem, in[1], in[2], in[3], in[4], << >>), r)

DeleteItem(c) ==
    /\ pc[c] = "idle"
    /\ \E in \in DeleteInputs :
          Finish(c, Call("deleteItem", NoItem, in[1], NoUpdate, in[2], in[3], << >>),
                 deleteItem(storage, in[1], PutOpts(in[2], in[3])))

\* the apply loop from position i up to its next await (or to its end)
TxRun(c, ops, i) ==
    LET j == NextCall(ops, i)
    IN IF j = 0
       THEN /\ pc' = [pc EXCEPT ![c] = "done"]
            /\ res' = [res EXCEPT ![c] = Settled(OK, NoItem)]
            /\ idx' = [idx EXCEPT ![c] = Len(ops) + 1]
            /\ UNCHANGED <<storage, applied, failedAt>>
       ELSE LET r == MemberCall(storage, ops[j])
            IN /\ AgeBounded(r.st)
               /\ storage' = r.st
               /\ idx' = [idx EXCEPT ![c] = j + 1]
               /\ IF r.code = OK
                  THEN /\ pc' = [pc EXCEPT ![c] = "tx"]
                       /\ applied' = [applied EXCEPT ![c] = @ + 1]
                       /\ UNCHANGED <<res, failedAt>>
                  ELSE /\ pc' = [pc EXCEPT ![c] = "done"]
                       /\ res' = [res EXCEPT ![c] = Settled(r.code, NoItem)]
                       /\ failedAt' = [failedAt EXCEPT ![c] =
                              IF r.code = CONDITIONAL_CHECK_FAILED THEN j ELSE 0]
                       /\ UNCHANGED applied

\* transactWrite is called: the condition pre-check loop, then the apply loop
\* up to its first await
TransactWriteFrom(c, inputs) ==
    /\ c \in TxCallers
    /\ pc[c] = "idle"
    /\ \E ops \in inputs :
          LET f == PreCheckFailure(storage, ops)
          IN /\ call' = [call EXCEPT ![c] =
                    Call("transactWrite", NoItem, NoKey, NoUpdate, NoCond, "NONE", ops)]
             /\ atStart' = [atStart EXCEPT ![c] = ConditionsAt(storage, ops)]
             /\ IF f # 0
                THEN /\ pc' = [pc EXCEPT ![c] = "done"]
                     /\ res' = [res EXCEPT ![c] = Settled(CONDITIONAL_CHECK_FAILED, NoItem)]
                     /\ failedAt' = [failedAt EXCEPT ![c] = f]
                     /\ UNCHANGED <<storage, idx, applied>>
                ELSE TxRun(c, ops, 1)
    /\ UNCHANGED <<acc, others>>

TransactWrite(c) == TransactWriteFrom(c, TxInputs)

\* the awaited member call has settled: the apply loop goes on
TxResume(c) ==
    /\ pc[c] = "tx"
    /\ TxRun(c, call[c].ops, idx[c])
    /\ UNCHANGED <<call, atStart, acc, others>>

\* the caller's await of the settled promise resumes
Return(c) ==
    /\ pc[c] = "done"
    /\ pc' = [pc EXCEPT ![c] = "idle"]
    /\ call' = [call EXCEPT ![c] = NoCall]
    /\ res' = [res EXCEPT ![c] = NoRes]
    /\ idx' = [idx EXCEPT ![c] = 0]
    /\ applied' = [applied EXCEPT ![c] = 0]
    /\ failedAt' = [failedAt EXCEPT ![c] = 0]
    /\ atStart' = [atStart EXCEPT ![c] = << >>]
    /\ acc' = [acc EXCEPT ![c] = << >>]
    /\ UNCHANGED <<storage, others>>

Next ==
    \E c \in Callers :
        \/ GetItem(c)
        \/ PutItem(c)
        \/ UpdateItem(c)
        \/ DeleteItem(c)
        \/ TransactWrite(c)
        \/ TxResume(c)
        \/ Return(c)

Spec == Init /\ [][Next]_vars

TypeOK ==
    /\ \A i \in 1..Len(storage) : storage[i].v # NoItem
    /\ \A c \in Callers : pc[c] \in {"idle", "tx", "bw", "bg", "done", "off"}

(***************************************************************************)
(* Concurrent conditional writes: the callers issue nothing but            *)
(* putItem(I, attribute_not_exists(pk)), each call made while the other    *)
(* caller's call may still be outstanding.                                 *)
(***************************************************************************)
RaceInputs == PutItems \X {NotExistsPk} \X {"NONE"}

RacePut(c) == PutItemFrom(c, RaceInputs)

NextRace ==
    \E c \in Callers :
        \/ RacePut(c)
        \/ Return(c)

SpecRace == Init /\ [][NextRace]_vars

(***************************************************************************)
(* The emulator's batch operations and item count.  batchWrite and         *)
(* batchGet await one putItem / deleteItem / getItem per element, so each  *)
(* element is one step and other callers may run between two elements.     *)
(***************************************************************************)
\* Map.size
getItemCount(st) == Len(st)

\* the call batchWrite makes for one operation: putItem(op.item) or
\* deleteItem(op.key), both without options
BatchCall(st, op) ==
    IF op.operation = "put"
    THEN putItem(st, op.item, PutOpts(NoCond, "NONE"))
    ELSE deleteItem(st, op.key, PutOpts(NoCond, "NONE"))

\* batchWrite's loop from position i up to its next await (or to its end)
BwRun(c, ops, i) ==
    IF i > Len(ops)
    THEN /\ pc' = [pc EXCEPT ![c] = "done"]
         /\ res' = [res EXCEPT ![c] = Settled(OK, NoItem)]
         /\ UNCHANGED <<storage, idx, applied>>
    ELSE LET r == BatchCall(storage, ops[i])
         IN /\ storage' = r.st
            /\ idx' = [idx EXCEPT ![c] = i + 1]
            /\ IF r.code = OK
               THEN /\ pc' = [pc EXCEPT ![c] = "bw"]
                    /\ applied' = [applied EXCEPT ![c] = @ + 1]
                    /\ UNCHANGED res
               ELSE /\ pc' = [pc EXCEPT ![c] = "done"]
                    /\ res' = [res EXCEPT ![c] = Settled(r.code, NoItem)]
                    /\ UNCHANGED applied

\* mutant: every lookup is pushed, found or not
Push_Always(results, item) == Append(results, item)
\* if (item) results.push(item)
Push(results, item) == IF item # NoItem THEN Append(results, item) ELSE results

\* batchGet run from position i to its end on a table that does not change
\* meanwhile
RECURSIVE BgLoop(_, _, _, _)
BgLoop(st, keys, i, results) ==
    IF i > Len(keys) THEN Outcome(st, OK, results)
    ELSE LET r == getItem(st, keys[i].key)
         IN IF r.code = OK
            THEN BgLoop(st, keys, i + 1, Push(results, r.value))
            ELSE Outcome(st, r.code, << >>)

batchGet(st, keys) == BgLoop(st, keys, 1, << >>)

\* batchGet's loop from position i up to its next await (or to its end)
BgRun(c, keys, i) ==
    IF i > Len(keys)
    THEN /\ pc' = [pc EXCEPT ![c] = "done"]
         /\ res' = [res EXCEPT ![c] = Settled(OK, NoItem)]
         /\ UNCHANGED <<idx, acc>>
    ELSE LET r == getItem(storage, keys[i].key)
         IN /\ idx' = [idx EXCEPT ![c] = i + 1]
            /\ IF r.code = OK
               THEN /\ pc' = [pc EXCEPT ![c] = "bg"]
                    /\ acc' = [acc EXCEPT ![c] = Push(@, r.value)]
                    /\ UNCHANGED res
               ELSE /\ pc' = [pc EXCEPT ![c] = "done"]
                    /\ res' = [res EXCEPT ![c] = Settled(r.code, NoItem)]
                    /\ UNCHANGED acc

BPut(item) == Member("put", item, NoKey, NoUpdate, NoCond)
BDel(key) == Member("delete", NoItem, key, NoUpdate, NoCond)
BKey(key) == Member("get", NoItem, key, NoUpdate, NoCond)

\* the chunk size of the networked batchWrite
batchSize == 25

\* more operations than one chunk holds: puts of the two items in turn
LongBatch == [j \in 1..(batchSize + 2) |-> IF j % 2 = 1 THEN BPut(A1) ELSE BPut(B1)]

BatchWriteInputs ==
    { << >>,
      <<BPut(A1), BPut(B1)>>,
      <<BPut(A2), BDel(K2)>>,
      <<BDel(K1), BPut(B1)>>,
      <<BPut(B1), BPut(BadItem), BPut(A1)>>,
      LongBatch }

BatchGetInputs ==
    { << >>,
      <<BKey(K1)>>,
      <<BKey(K1), BKey(K2)>>,
      <<BKey(K2), BKey(K1)>>,
      <<BKey(K1), BKey(K1)>> }

\* a transaction of two unconditional puts
BatchTxInputs == { <<BPut(A1), BPut(B1)>> }

BatchWrite(c) ==
    /\ c \in TxCallers
    /\ pc[c] = "idle"
    /\ \E ops \in BatchWriteInputs :
          /\ call' = [call EXCEPT ![c] =
                 Call("batchWrite", NoItem, NoKey, NoUpdate, NoCond, "NONE", ops)]
          /\ BwRun(c, ops, 1)
    /\ UNCHANGED <<failedAt, atStart, acc, others>>

BwResume(c) ==
    /\ pc[c] = "bw"
    /\ BwRun(c, call[c].ops, idx[c])
    /\ UNCHANGED <<call, failedAt, atStart, acc, others>>

BatchGet(c) ==
    /\ c \in TxCallers
    /\ pc[c] = "idle"
    /\ \E keys \in BatchGetInputs :
          /\ call' = [call EXCEPT ![c] =
                 Call("batchGet", NoItem, NoKey, NoUpdate, NoCond, "NONE", keys)]
          /\ BgRun(c, keys, 1)
    /\ UNCHANGED <<storage, applied, failedAt, atStart, others>>

BgResume(c) ==
    /\ pc[c] = "bg"
    /\ BgRun(c, call[c].ops, idx[c])
    /\ UNCHANGED <<storage, call, applied, failedAt, atStart, others>>

GetItemCount(c) ==
    /\ pc[c] = "idle"
    /\ Finish(c, Call("getItemCount", NoItem, NoKey, NoUpdate, NoCond, "NONE", << >>),
              Outcome(storage, OK, Num(getItemCount(storage))))

BatchTx(c) == TransactWriteFrom(c, BatchTxInputs)

(***************************************************************************)
(* The networked batchWrite.  The operations are named by their position   *)
(* 1..n in the input; a request is the set of positions it carries.  The   *)
(* backend answers each request either with an exception or with the       *)
(* subset of the request it left unprocessed.  The record net holds the    *)
(* call's local variables (n, i, request, unprocessed, retryCount, delay)  *)
(* and what an observer of the exchange has seen: the kind of the last     *)
(* answer, the number of requests sent for the chunk (sends), the          *)
(* positions sent in a chunk's first request (started) and those reported  *)
(* processed.                                                              *)
(***************************************************************************)
\* the most write requests one response reports as unprocessed
MaxUnprocessed == 2

maxRetries == 5

\* the numbers of operations batchWrite is called with
NetSizes == {0, 1, batchSize, batchSize + 1, 2 * batchSize + 1}

\* what the backend may throw
BackendExceptions ==
    { [name |-> "ResourceNotFoundException", message |-> "Requested resource not found"],
      [name |-> "ValidationException", message |-> "Invalid request"],
      [name |-> "InternalServerError", message |-> "Internal failure"] }

ProcessingError ==
    [name |-> "Error", message |-> "Some items could not be processed after retries"]

Failure(code, message) == [code |-> code, status |-> StatusCode(code), message |-> message]

handleDynamoDbError(error) ==
    CASE error.name = "ResourceNotFoundException" -> Failure(TABLE_NOT_FOUND, "Table not found")
      [] error.name = "ConditionalCheckFailedException" ->
            Failure(CONDITIONAL_CHECK_FAILED, "Conditional check failed")
      [] error.name = "ValidationException" -> Failure(VALIDATION_ERROR, error.message)
      [] error.name = "TransactionCanceledException" ->
            Failure(TRANSACTION_CANCELLED, "Transaction was cancelled")
      [] OTHER -> Failure(UNKNOWN_ERROR, error.message)

Min(a, b) == IF a <= b THEN a ELSE b

\* operations.slice(i, i + batchSize), i counted from 0
Chunk(n, i) == (i + 1)..Min(i + batchSize, n)

\* mutant: one more retry is allowed
RetryAllowed_OneMore(retryCount) == retryCount <= maxRetries
\* the loop test on the retry counter
RetryAllowed(retryCount) == retryCount < maxRetries

\* mutant: the retry sends the previous request again
RetryRequest_Resend(rec) == rec.request
\* the retry command carries result.UnprocessedItems
RetryRequest(rec) == rec.unprocessed

RECURSIVE Pow2(_)
Pow2(k) == IF k = 0 THEN 1 ELSE 2 * Pow2(k - 1)

\* the subsets of S of at most k elements
RECURSIVE Small(_, _)
Small(S, k) ==
    IF k = 0 THEN {{}}
    ELSE LET P == Small(S, k - 1) IN P \cup {q \cup {x} : q \in P, x \in S}

\* the first request of the chunk starting after position i
SendChunk(rec, i) ==
    [rec EXCEPT !.pc = "sending", !.i = i, !.phase = "initial",
                !.request = Chunk(rec.n, i), !.unprocessed = {},
                !.started = @ \cup Chunk(rec.n, i),
                !.retryCount = 0, !.sends = 1, !.delay = 0]

NetSettle(rec, f) ==
    [rec EXCEPT !.pc = "done", !.code = f.code, !.status = f.status,
                !.message = f.message]

NetBatchWrite ==
    /\ net.pc = "idle"
    /\ \E n \in NetSizes :
          net' = IF n = 0
                 THEN NetSettle([NoNet EXCEPT !.n = n], Failure(OK, ""))
                 ELSE SendChunk([NoNet EXCEPT !.n = n], 0)
    /\ UNCHANGED emulator

\* the backend's answer arrives and the code runs up to its next await
NetRespond ==
    /\ net.pc = "sending"
    /\ \/ \E e \in BackendExceptions :
             net' = NetSettle([net EXCEPT !.answer = "exception"], handleDynamoDbError(e))
       \/ \E U \in Small(net.request, MaxUnprocessed) :
             LET rc == IF net.phase = "retry" THEN net.retryCount + 1 ELSE net.retryCount
                 got == [net EXCEPT !.unprocessed = U, !.retryCount = rc,
                                    !.answer = "response",
                                    !.processed = @ \cup (net.request \ U)]
             IN net' =
                  IF U # {} /\ RetryAllowed(rc)
                  THEN [got EXCEPT !.pc = "waiting", !.delay = Pow2(rc) * 100]
                  ELSE IF U # {}
                  THEN NetSettle(got, handleDynamoDbError(ProcessingError))
                  ELSE IF net.i + batchSize < net.n
                  THEN SendChunk(got, net.i + batchSize)
                  ELSE NetSettle(got, Failure(OK, ""))
    /\ UNCHANGED emulator

\* the back-off delay has elapsed: the retry request is sent
NetTimer ==
    /\ net.pc = "waiting"
    /\ net' = [net EXCEPT !.pc = "sending", !.phase = "retry",
                          !.request = RetryRequest(net), !.sends = @ + 1]
    /\ UNCHANGED emulator

\* the implementation in use is chosen once, at construction: either the
\* emulator (the networked one is off) or the networked one (the emulator's
\* callers are off)
NetOff == [NoNet EXCEPT !.pc = "off"]

InitBatch == InitWith("idle", NetOff, ProdOff) \/ InitWith("off", NoNet, ProdOff)

NextBatch ==
    \/ \E c \in Callers :
          \/ GetItem(c)
          \/ PutItem(c)
          \/ DeleteItem(c)
          \/ GetItemCount(c)
          \/ BatchWrite(c)
          \/ BwResume(c)
          \/ BatchGet(c)
          \/ BgResume(c)
          \/ BatchTx(c)
          \/ TxResume(c)
          \/ Return(c)
    \/ NetBatchWrite
    \/ NetRespond
    \/ NetTimer

SpecBatch == InitBatch /\ [][NextBatch]_vars

(***************************************************************************)
(* The emulator's query and scan builders.  A builder holds the options    *)
(* its methods have set; execute() walks the table's entries in insertion  *)
(* order.                                                                  *)
(***************************************************************************)
\* the decimal digits of a natural number, most significant first
RECURSIVE Digits(_)
Digits(n) == IF n < 10 THEN <<n>> ELSE Append(Digits(n \div 10), n % 10)

\* String(value): the characters of a number or of a string.  A string of
\* digits is the sequence of its digits; a word is a single symbol that is
\* no digit (a word is taken here only as a whole)
String(value) ==
    IF value.t = "N" THEN Digits(value.v)
    ELSE CASE value = D1 -> <<1>>
           [] value = D12 -> <<1, 2>>
           [] value = D2 -> <<2>>
           [] OTHER -> <<100 + value.v>>

startsWith(text, prefix) ==
    /\ Len(prefix) <= Len(text)
    /\ SubSeq(text, 1, Len(prefix)) = prefix

\* x < y of two numbers or two strings (values of the key's type)
Less(x, y) == x.t = y.t /\ x.v < y.v

SkCond(operator, value) ==
    [operator |-> operator, value |-> value, start |-> UNDEF, end |-> UNDEF]
SkBetween(start, end) ==
    [operator |-> "between", value |-> UNDEF, start |-> start, end |-> end]

\* mutant: between leaves out its upper bound
matchesSortKey_OpenEnd(itemSkValue, condition) ==
    CASE condition.operator = "=" -> itemSkValue = condition.value
      [] condition.operator = ">" -> Less(condition.value, itemSkValue)
      [] condition.operator = ">=" -> ~Less(itemSkValue, condition.value)
      [] condition.operator = "<" -> Less(itemSkValue, condition.value)
      [] condition.operator = "<=" -> ~Less(condition.value, itemSkValue)
      [] condition.operator = "begins_with" ->
            startsWith(String(itemSkValue), String(condition.value))
      [] condition.operator = "between" ->
            ~Less(itemSkValue, condition.start) /\ Less(itemSkValue, condition.end)
      [] OTHER -> FALSE
\* the switch over condition.operator
matchesSortKey(itemSkValue, condition) ==
    CASE condition.operator = "=" -> itemSkValue = condition.value
      [] condition.operator = ">" -> Less(condition.value, itemSkValue)
      [] condition.operator = ">=" -> ~Less(itemSkValue, condition.value)
      [] condition.operator = "<" -> Less(itemSkValue, condition.value)
      [] condition.operator = "<=" -> ~Less(condition.value, itemSkValue)
      [] condition.operator = "begins_with" ->
            startsWith(String(itemSkValue), String(condition.value))
      [] condition.operator = "between" ->
            ~Less(itemSkValue, condition.start) /\ ~Less(condition.end, itemSkValue)
      [] OTHER -> FALSE

\* a number other than 0 is truthy, undefined is not
Truthy(value) == value.t = "N" /\ value.v # 0

\* mutant: the loop stops one item late
LimitReached_Late(limitValue, n) == Truthy(limitValue) /\ n > limitValue.v
\* this.limitValue && items.length >= this.limitValue
LimitReached(limitValue, n) == Truthy(limitValue) /\ n >= limitValue.v

\* the query builder skips the entry
QuerySkips(b, item) ==
    \/ item[partitionKey[1]] # b.partitionKeyValue
    \/ /\ b.sortKeyCondition # NoSortKeyCondition
       /\ HasSortKey
       /\ ~matchesSortKey(item[sortKey[1]], b.sortKeyCondition)

\* mutant: only the items that pass the filter are counted as scanned
Scanned_Matched(scannedCount, passes) == IF passes THEN scannedCount + 1 ELSE scannedCount
\* scannedCount++ at the head of the loop body
Scanned(scannedCount, passes) == scannedCount + 1

\* the loop of execute() from entry i on
RECURSIVE ExecuteLoop(_, _, _, _, _)
ExecuteLoop(st, b, i, items, scannedCount) ==
    IF i > Len(st) THEN [items |-> items, scannedCount |-> scannedCount]
    ELSE LET item == st[i].v
             passes == /\ ~(b.kind = "query" /\ QuerySkips(b, item))
                       /\ (b.filter.expr # << >> => EvalCond(item, b.filter))
                       /\ SchemaOk(item)
             n == Scanned(scannedCount, passes)
         IN IF ~passes
            THEN ExecuteLoop(st, b, i + 1, items, n)
            ELSE IF LimitReached(b.limitValue, Len(items) + 1)
                 THEN [items |-> Append(items, item), scannedCount |-> n]
                 ELSE ExecuteLoop(st, b, i + 1, Append(items, item), n)

\* Array.prototype.sort (stable) with the comparator on the sort key
RECURSIVE InsertSorted(_, _, _)
InsertSorted(sorted, item, forward) ==
    IF sorted = << >> THEN <<item>>
    ELSE LET last == sorted[Len(sorted)]
             after == IF forward
                      THEN ~Less(item[sortKey[1]], last[sortKey[1]])
                      ELSE ~Less(last[sortKey[1]], item[sortKey[1]])
         IN IF after THEN Append(sorted, item)
            ELSE Append(InsertSorted(SubSeq(sorted, 1, Len(sorted) - 1), item, forward), last)

\* mutant: the items stay in the order the loop collected them
SortItems_Unsorted(items, forward) == items
RECURSIVE SortItems(_, _)
SortItems(items, forward) ==
    IF items = << >> THEN << >>
    ELSE InsertSorted(SortItems(SubSeq(items, 1, Len(items) - 1), forward),
                      items[Len(items)], forward)

execute(st, b) ==
    LET r == ExecuteLoop(st, b, 1, << >>, 0)
        items == IF b.kind = "query" /\ HasSortKey
                 THEN SortItems(r.items, b.scanIndexForwardFlag)
                 ELSE r.items
    IN [executed |-> TRUE, items |-> items, lastEvaluatedKey |-> NoKey,
        count |-> Len(items), scannedCount |-> r.scannedCount]

\* mutant: a page is yielded whether it has items or not
Yield_Always(batches, items) == Append(batches, items)
\* if (result.items.length > 0) yield result.items
Yield(batches, items) == IF Len(items) > 0 THEN Append(batches, items) ELSE batches

\* the most items a table holds at the start
MaxItems == 3

\* the items the tables are made of: two partitions, sort keys 1, 2 and 12
Q1 == MkItem(U1, Num(1), ACTIVE, Num(1), UNDEF)
Q2 == MkItem(U1, Num(2), INACTIVE, Num(1), UNDEF)
Q3 == MkItem(U1, Num(12), ACTIVE, Num(1), MEMO)
Q4 == MkItem(U2, Num(1), INACTIVE, Num(1), MEMO)
Q5 == MkItem(U2, Num(2), ACTIVE, Num(1), UNDEF)
QueryItems == {Q1, Q2, Q3, Q4, Q5}

SortKeyConditions ==
    { SkCond("=", Num(2)), SkCond(">", Num(1)), SkCond(">=", Num(2)),
      SkCond("<", Num(12)), SkCond("<=", Num(2)), SkCond("begins_with", D1),
      SkBetween(Num(1), Num(2)), SkBetween(Num(2), Num(12)) }

LimitInputs == {0, 1, 2}

ExistsNote == MkCond(<<attribute_exists("note")>>, FALSE, FALSE)
FilterInputs == {StatusActive, ExistsNote}

InitQuery == InitWith("off", NetOff, ProdOff)

\* the builder becomes b; nothing else changes but the table, which the
\* action says
Builder(b) ==
    /\ qb' = b
    /\ UNCHANGED <<pc, call, res, idx, applied, failedAt, atStart, acc, net, prod, services>>

\* the table is filled by putItem calls before the first builder is made
Seed ==
    /\ qb.kind = "none"
    /\ Len(storage) < MaxItems
    /\ \E item \in QueryItems :
          storage' = putItem(storage, item, PutOpts(NoCond, "NONE")).st
    /\ Builder(qb)

\* service.query(partitionKeyValue)
Query ==
    /\ UNCHANGED storage
    /\ \E pkv \in {U1, U2} :
          Builder([NoBuilder EXCEPT !.kind = "query", !.partitionKeyValue = pkv])

\* service.scan()
Scan ==
    /\ UNCHANGED storage
    /\ Builder([NoBuilder EXCEPT !.kind = "scan"])

AddSortKey ==
    /\ qb.kind = "query"
    /\ HasSortKey
    /\ UNCHANGED storage
    /\ \E condition \in SortKeyConditions :
          Builder([qb EXCEPT !.sortKeyCondition = condition, !.result = NoResult, !.stream = NoStream])

Limit ==
    /\ qb.kind # "none"
    /\ UNCHANGED storage
    /\ \E count \in LimitInputs :
          Builder([qb EXCEPT !.limitValue = Num(count), !.result = NoResult, !.stream = NoStream])

ScanBackward ==
    /\ qb.kind = "query"
    /\ UNCHANGED storage
    /\ Builder([qb EXCEPT !.scanIndexForwardFlag = FALSE, !.result = NoResult, !.stream = NoStream])

Filter ==
    /\ qb.kind # "none"
    /\ UNCHANGED storage
    /\ \E f \in FilterInputs :
          Builder([qb EXCEPT !.filter = f, !.result = NoResult, !.stream = NoStream])

Execute ==
    /\ qb.kind # "none"
    /\ UNCHANGED storage
    /\ Builder([qb EXCEPT !.result = execute(storage, qb)])

\* service.scanStream(): a scan builder that can also be iterated
ScanStream ==
    /\ UNCHANGED storage
    /\ Builder([NoBuilder EXCEPT !.kind = "scanStream"])

\* for await (const batch of stream): the emulator's iterator executes the
\* scan once, yields its items when there are any, and ends
Drain ==
    /\ qb.kind = "scanStream"
    /\ UNCHANGED storage
    /\ LET result == execute(storage, qb)
       IN Builder([qb EXCEPT !.result = result,
                             !.stream = [done |-> TRUE,
                                         batches |-> Yield(<< >>, result.items)]])

\* the secondary indexes the service is constructed with
Indexes == [name \in {"by-status"} |-> << <<"status", "string">>, <<"age", "number">> >>]

\* service.query(partitionKeyValue) with the value of an index's partition key
QueryValue ==
    /\ UNCHANGED storage
    /\ \E pkv \in {U1, ACTIVE, INACTIVE} :
          Builder([NoBuilder EXCEPT !.kind = "query", !.partitionKeyValue = pkv])

\* builder.index(name): the emulator's method returns this and keeps nothing
\* (indexNameValue is never assigned); indexName records that the call was made
Index ==
    /\ qb.kind = "query"
    /\ UNCHANGED storage
    /\ \E name \in DOMAIN Indexes : Builder([qb EXCEPT !.indexName = name])

NextIndex ==
    \/ Seed
    \/ QueryValue
    \/ Index
    \/ Execute

SpecIndex == InitQuery /\ [][NextIndex]_vars

NextQuery ==
    \/ Seed
    \/ Query
    \/ Scan
    \/ AddSortKey
    \/ Limit
    \/ ScanBackward
    \/ Filter
    \/ Execute
    \/ ScanStream
    \/ Drain

SpecQuery == InitQuery /\ [][NextQuery]_vars

(***************************************************************************)
(* The networked item operations and scan stream.  Each operation builds   *)
(* one command, awaits client.send and maps the response or the exception  *)
(* to its result.  The backend is the environment: it answers a command    *)
(* with a response or with an exception.                                   *)
(***************************************************************************)
\* the most pages the backend cuts one scan of the table into
MaxPages == 3

\* !value for the values an item attribute takes
Falsy(value) == value \in {UNDEF, EMPTY, Num(0)}

\* putItem's copy of the item: createdAt set when the property is there and
\* falsy, updatedAt set when the property is there
itemWithTimestamps(item) ==
    LET created == IF item["createdAt"] # UNDEF /\ Falsy(item["createdAt"])
                   THEN [item EXCEPT !["createdAt"] = Now]
                   ELSE item
    IN IF created["updatedAt"] # UNDEF
       THEN [created EXCEPT !["updatedAt"] = Now]
       ELSE created

\* #updatedAt = :updatedAt is appended to the SET clause, or becomes the SET
\* clause in front of the expression when there was none
addTimestampToUpdateExpression(upd) ==
    IF upd.set # << >>
    THEN [upd EXCEPT !.set = Append(upd.set, Asg("updatedAt", Now))]
    ELSE [upd EXCEPT !.set = <<Asg("updatedAt", Now)>>]

\* the rejected promise of an operation, from the error handleDynamoDbError returns
Rejected(error) ==
    LET f == handleDynamoDbError(error)
    IN [code |-> f.code, status |-> f.status, value |-> NoItem]

\* what validateAndParseItem throws, and what schema.parse throws
ItemValidationError == [name |-> "DynamoDbValidationError", message |-> "Item validation failed"]
ZodError == [name |-> "ZodError", message |-> "Invalid input"]

\* return this.validateAndParseItem(item), inside the operation's try block
Validated(item) ==
    IF validateAndParseItem(item) THEN Settled(OK, item) ELSE Rejected(ItemValidationError)

\* the result of an item operation, from the backend's answer
ProdResult(op, options, answer) ==
    IF answer.kind = "error" THEN Rejected(answer.error)
    ELSE CASE op = "getItem" ->
                IF answer.Item = NoItem THEN Settled(OK, NoItem) ELSE Validated(answer.Item)
           [] op \in {"putItem", "deleteItem"} ->
                IF answer.Attributes # NoItem /\ options.returnValues = "ALL_OLD"
                THEN Validated(answer.Attributes)
                ELSE Settled(OK, NoItem)
           [] op = "updateItem" ->
                IF answer.Attributes # NoItem /\ options.returnValues # "NONE"
                THEN Validated(answer.Attributes)
                ELSE Settled(OK, NoItem)
           [] op = "batchGet" ->
                IF \E i \in 1..Len(answer.Items) : ~validateAndParseItem(answer.Items[i])
                THEN Rejected(ItemValidationError)
                ELSE Settled(OK, NoItem)
           [] OTHER -> Settled(OK, NoItem)

\* the result of one scan: every item goes through schema.parse
ScanResult(answer) ==
    IF answer.kind = "error" THEN Rejected(answer.error)
    ELSE IF \E i \in 1..Len(answer.Items) : ~SchemaOk(answer.Items[i])
    THEN Rejected(ZodError)
    ELSE Settled(OK, NoItem)

\* items that carry the timestamp fields: not yet set, and set earlier
TsNew == [A1 EXCEPT !["createdAt"] = EMPTY, !["updatedAt"] = EMPTY]
TsOld == [B1 EXCEPT !["createdAt"] = Earlier, !["updatedAt"] = Earlier]
ImplItems == {A1, BadItem, TsNew, TsOld}
ImplPutInputs == ImplItems \X {NoCond} \X {"NONE"}

SetAndAdd == MkUpdate(<<Asg("status", INACTIVE)>>, <<Asg("age", Num(1))>>)
ProdUpdates == {SetInactive, AddAge, SetAndAdd}

\* what the backend may answer
Ok == [NoAnswer EXCEPT !.kind = "ok"]
Thrown(error) == [NoAnswer EXCEPT !.kind = "error", !.error = error]
ConditionalCheckFailedException ==
    [name |-> "ConditionalCheckFailedException", message |-> "The conditional request failed"]
ReturnedItems == {NoItem, A1, TsOld, BadItem}
ItemAnswers ==
    {[Ok EXCEPT !.Item = item, !.Attributes = item] : item \in ReturnedItems}
        \cup {Thrown(error) : error \in BackendExceptions \cup {ConditionalCheckFailedException}}
BatchAnswers ==
    {[Ok EXCEPT !.Items = items] : items \in {<< >>, <<A1>>, <<A1, BadItem>>}}
        \cup {Thrown(error) : error \in BackendExceptions}
Pages == {<< >>, <<A1>>, <<A1, B1>>, <<BadItem>>}
PageAnswers ==
    {[Ok EXCEPT !.Items = items, !.LastEvaluatedKey = token] :
        items \in Pages, token \in {NoKey, K1, K2}}
        \cup {Thrown(error) : error \in BackendExceptions}

\* client.send(command): the operation is suspended until the backend answers
Send(op, item, key, options, held, request) ==
    /\ prod.pc = "idle"
    /\ prod' = [NoProd EXCEPT !.pc = "sent", !.op = op, !.item = item, !.key = key,
                              !.options = options, !.held = held, !.request = request]

ProdGetItem ==
    /\ UNCHANGED emulatorState
    /\ \E key \in Keys : \E held \in BOOLEAN :
          Send("getItem", NoItem, key, NoProd.options, held,
               [NoRequest EXCEPT !.command = "Get", !.Key = buildKey(key)])

ProdPutItem ==
    /\ UNCHANGED emulatorState
    /\ \E item \in ImplItems : \E returnValues \in {"NONE", "ALL_OLD"} :
          Send("putItem", item, NoKey, UpdateOpts(NoUpdate, NoCond, returnValues), FALSE,
               [NoRequest EXCEPT !.command = "Put", !.Item = itemWithTimestamps(item)])

ProdUpdateItem ==
    /\ UNCHANGED emulatorState
    /\ \E key \in Keys : \E upd \in ProdUpdates : \E held \in BOOLEAN :
       \E returnValues \in {"NONE", "ALL_NEW"} :
          Send("updateItem", NoItem, key, UpdateOpts(upd, NoCond, returnValues), held,
               [NoRequest EXCEPT !.command = "Update", !.Key = buildKey(key),
                                 !.UpdateExpression = addTimestampToUpdateExpression(upd)])

ProdDeleteItem ==
    /\ UNCHANGED emulatorState
    /\ \E key \in Keys : \E held \in BOOLEAN : \E returnValues \in {"NONE", "ALL_OLD"} :
          Send("deleteItem", NoItem, key, UpdateOpts(NoUpdate, NoCond, returnValues), held,
               [NoRequest EXCEPT !.command = "Delete", !.Key = buildKey(key)])

\* batchGet of at most 100 keys: one BatchGetCommand
ProdBatchGet ==
    /\ UNCHANGED emulatorState
    /\ Send("batchGet", NoItem, NoKey, NoProd.options, FALSE,
            [NoRequest EXCEPT !.command = "BatchGet"])

\* the backend answers an item operation; the operation settles
ProdRespond ==
    /\ prod.pc = "sent"
    /\ prod.op \in {"getItem", "putItem", "updateItem", "deleteItem", "batchGet"}
    /\ UNCHANGED emulatorState
    /\ \E answer \in (IF prod.op = "batchGet" THEN BatchAnswers ELSE ItemAnswers) :
          LET result == ProdResult(prod.op, prod.options, answer)
          IN prod' = [prod EXCEPT !.pc = "done", !.answer = answer, !.result = result,
                                  !.items = IF result.code = OK THEN answer.Items ELSE << >>]

\* for await (const batch of service.scanStream()): the first scan is sent,
\* from options.exclusiveStartKey when startFrom() was called on the builder
ProdScanStream ==
    /\ UNCHANGED emulatorState
    /\ \E exclusiveStartKey \in {NoKey, K1} :
          Send("scanStream", NoItem, exclusiveStartKey, NoProd.options, FALSE,
               [NoRequest EXCEPT !.command = "Scan",
                                 !.ExclusiveStartKey = exclusiveStartKey])

\* the backend answers a scan: the page is yielded when it has items, and the
\* loop scans again from the page's LastEvaluatedKey or ends when it has none
StreamRespond ==
    /\ prod.pc = "sent"
    /\ prod.op = "scanStream"
    /\ UNCHANGED emulatorState
    /\ \E answer \in PageAnswers :
          /\ answer.LastEvaluatedKey # NoKey => prod.pages + 1 < MaxPages
          /\ LET result == ScanResult(answer)
                 lastEvaluatedKey == answer.LastEvaluatedKey
                 received == [prod EXCEPT !.answer = answer, !.pages = @ + 1]
             IN prod' =
                  IF result.code # OK
                  THEN [received EXCEPT !.pc = "done", !.result = result]
                  ELSE IF lastEvaluatedKey # NoKey
                  THEN [received EXCEPT !.batches = Yield(@, answer.Items),
                                        !.request.ExclusiveStartKey = lastEvaluatedKey]
                  ELSE [received EXCEPT !.batches = Yield(@, answer.Items),
                                        !.pc = "done", !.result = result]

\* the most addSortKey calls made on one networked query builder
MaxSortKeyCalls == 2

\* the clause addSortKey appends to the key condition expression, after AND
SortKeyClause(condition) ==
    CASE condition.operator = "between" -> <<"#sk", "BETWEEN", ":skstart", ":skend">>
      [] condition.operator = "begins_with" -> <<"begins_with", "#sk", ":skval">>
      [] OTHER -> <<"#sk", condition.operator, ":skval">>

\* addSortKey on the networked builder: keyConditionExpression += ' AND ...',
\* the value stored under the clause's alias
addSortKey(builder, condition) ==
    [builder EXCEPT
        !.keyConditionExpression = Append(@, SortKeyClause(condition)),
        !.expressionAttributeValues =
            IF condition.operator = "between"
            THEN [@ EXCEPT !.skstart = condition.start, !.skend = condition.end]
            ELSE [@ EXCEPT !.skval = condition.value],
        !.conditions = Append(@, condition)]

\* new DynamoDbQueryBuilder(...): '#pk = :pkval'
NewQuery(partitionKeyValue) ==
    [NoProd EXCEPT !.pc = "building", !.op = "query",
                   !.keyConditionExpression = << <<"#pk", "=", ":pkval">> >>,
                   !.expressionAttributeValues = [NoValues EXCEPT !.pkval = partitionKeyValue]]

ProdSortKeyConditions == {SkCond(">", Num(1)), SkCond("<", Num(12)), SkBetween(Num(1), Num(2))}

\* service.query(partitionKeyValue) on the networked implementation
ProdQuery ==
    /\ prod.pc = "idle"
    /\ UNCHANGED emulatorState
    /\ \E partitionKeyValue \in {U1, U2} : prod' = NewQuery(partitionKeyValue)

ProdAddSortKey ==
    /\ prod.pc = "building"
    /\ HasSortKey
    /\ Len(prod.conditions) < MaxSortKeyCalls
    /\ UNCHANGED emulatorState
    /\ \E condition \in ProdSortKeyConditions : prod' = addSortKey(prod, condition)

\* execute() of the networked query builder, up to the send
ProdQueryExecute ==
    /\ prod.pc = "building"
    /\ UNCHANGED emulatorState
    /\ prod' = [prod EXCEPT
                  !.pc = "sent",
                  !.request = [NoRequest EXCEPT
                      !.command = "Query",
                      !.KeyConditionExpression = prod.keyConditionExpression,
                      !.ExpressionAttributeValues = prod.expressionAttributeValues]]

\* the backend answers the query
QueryRespond ==
    /\ prod.pc = "sent"
    /\ prod.op = "query"
    /\ UNCHANGED emulatorState
    /\ \E answer \in PageAnswers :
          LET result == ScanResult(answer)
          IN prod' = [prod EXCEPT !.pc = "done", !.answer = answer, !.result = result,
                                  !.items = IF result.code = OK THEN answer.Items ELSE << >>]

\* the emulator under the same calls, on items that carry the timestamps
ImplPut(c) ==
    /\ UNCHANGED others
    /\ PutItemFrom(c, ImplPutInputs)

InitImpl == InitWith("idle", NetOff, ProdOff) \/ InitWith("off", NetOff, NoProd)

NextImpl ==
    \/ \E c \in TxCallers :
          \/ ImplPut(c)
          \/ UpdateItem(c)
          \/ DeleteItem(c)
          \/ Return(c)
    \/ ProdGetItem
    \/ ProdPutItem
    \/ ProdUpdateItem
    \/ ProdDeleteItem
    \/ ProdBatchGet
    \/ ProdRespond
    \/ ProdScanStream
    \/ StreamRespond
    \/ ProdQuery
    \/ ProdAddSortKey
    \/ ProdQueryExecute
    \/ QueryRespond

SpecImpl == InitImpl /\ [][NextImpl]_vars

(***************************************************************************)
(* The emulator's update application as a function: applyUpdateExpression  *)
(* applied to an item and an update expression, the result kept as the     *)
(* caller's result.                                                        *)
(***************************************************************************)
ApplyItems == {A1, A2, B1, TsOld}
AddClauses ==
    {Asg(a, v) : a \in {"age", "note", "status"}, v \in {Num(1), Num(2), MEMO}}
ApplyUpdates ==
    {MkUpdate(set, add) :
        set \in {<< >>, <<Asg("pk", U2)>>},
        add \in {<< >>} \cup {<<clause>> : clause \in AddClauses}
                        \cup {<<Asg("age", Num(1)), Asg("note", Num(2))>>}}

ApplyUpdate(c) ==
    /\ pc[c] = "idle"
    /\ \E item \in ApplyItems : \E upd \in ApplyUpdates :
          Finish(c, Call("applyUpdateExpression", item, NoKey, upd, NoCond, "NONE", << >>),
                 Outcome(storage, OK, applyUpdateExpression(item, upd)))

NextUpdate == \E c \in Callers : ApplyUpdate(c)

SpecUpdate == Init /\ [][NextUpdate]_vars

(***************************************************************************)
(* The emulator under updates whose SET or ADD clause names a key          *)
(* attribute.  updateItem stores the updated item under the key string of  *)
(* the key it was called with.                                             *)
(***************************************************************************)
MaxSortKey == 3

SetSk == MkUpdate(<<Asg("sk", Num(2))>>, << >>)
AddSk == MkUpdate(<< >>, <<Asg("sk", Num(1))>>)
SetPk == MkUpdate(<<Asg("pk", U2)>>, << >>)
KeyUpdateInputs == Keys \X {SetSk, AddSk, SetPk} \X {NoCond} \X {"NONE", "ALL_NEW"}

SortKeyBounded(st) ==
    \A i \in 1..Len(st) : st[i].v["sk"].t = "N" => st[i].v["sk"].v <= MaxSortKey

UpdateKey(c) ==
    /\ pc[c] = "idle"
    /\ \E in \in KeyUpdateInputs :
          LET r == updateItem(storage, in[1], UpdateOpts(in[2], in[3], in[4]))
          IN /\ SortKeyBounded(r.st)
             /\ Finish(c, Call("updateItem", NoItem, in[1], in[2], in[3], in[4], << >>), r)

NextKey ==
    \E c \in TxCallers :
        \/ GetItem(c)
        \/ PutItem(c)
        \/ UpdateKey(c)
        \/ DeleteItem(c)
        \/ Return(c)

SpecKey == Init /\ [][NextKey]_vars

(***************************************************************************)
(* The emulator's condition evaluation as a function: evaluateCondition    *)
(* applied to an item (or to no item) and a condition expression, the      *)
(* boolean kept as the caller's result.                                    *)
(***************************************************************************)
Bool(b) == [t |-> "B", v |-> IF b THEN 1 ELSE 0]

\* the sub-conditions the expressions are made of
Atoms ==
    { attribute_exists("note"), attribute_not_exists("note"),
      Cmp("status", "=", ACTIVE), Cmp("age", ">=", Num(1)),
      Cmp("age", "<", MEMO), Cmp("status", ">", Num(1)), Cmp("status", "<", MEMO) }

CondExprs ==
    {<< >>, <<OtherForm>>}
        \cup {<<x>> : x \in Atoms}
        \cup {<<NOT, x>> : x \in Atoms}
        \cup {<<x, AND, y>> : x \in Atoms, y \in Atoms}
        \cup {<<x, OR, y>> : x \in Atoms, y \in Atoms}
        \cup {<<x, OR, y, AND, z>> : x \in Atoms, y \in Atoms, z \in Atoms}

CondItems == {NoItem, A1, A2}

EvaluateCondition(c) ==
    /\ pc[c] = "idle"
    /\ \E item \in CondItems : \E expr \in CondExprs : \E given \in BOOLEAN :
          LET cond == MkCond(expr, given, given)
          IN Finish(c, Call("evaluateCondition", item, NoKey, NoUpdate, cond, "NONE", << >>),
                    Outcome(storage, OK, Bool(EvalCond(item, cond))))

NextCond == \E c \in TxCallers : EvaluateCondition(c)

SpecCond == Init /\ [][NextCond]_vars

(***************************************************************************)
(* Backend selection.  classResolver reads CLASS_RESOLVER_OVERRIDE and      *)
(* NODE_ENV from process.env and returns one of its two arguments.  A       *)
(* string is the sequence of its characters.                                *)
(***************************************************************************)
\* String.prototype.toLowerCase on the letters the inputs use
LowerChar(ch) ==
    CASE ch = "C" -> "c"
      [] ch = "D" -> "d"
      [] ch = "E" -> "e"
      [] ch = "I" -> "i"
      [] ch = "N" -> "n"
      [] ch = "O" -> "o"
      [] ch = "P" -> "p"
      [] ch = "R" -> "r"
      [] ch = "S" -> "s"
      [] ch = "T" -> "t"
      [] ch = "U" -> "u"
      [] ch = "V" -> "v"
      [] OTHER -> ch
toLowerCase(text) == [i \in 1..Len(text) |-> LowerChar(text[i])]

test_ == <<"t", "e", "s", "t">>
prod_ == <<"p", "r", "o", "d">>
production_ == <<"p", "r", "o", "d", "u", "c", "t", "i", "o", "n">>
staging_ == <<"s", "t", "a", "g", "i", "n", "g">>
dev_ == <<"d", "e", "v">>
development_ == <<"d", "e", "v", "e", "l", "o", "p", "m", "e", "n", "t">>

\* mutant: the stage signal is looked at first
classResolver_StageFirst(classResolverOverride, nodeEnv) ==
    IF nodeEnv.defined /\ toLowerCase(nodeEnv.text) \in {prod_, production_, staging_}
    THEN "prodImplementation"
    ELSE IF nodeEnv.defined /\ toLowerCase(nodeEnv.text) \in {dev_, development_, test_}
    THEN "testImplementation"
    ELSE IF classResolverOverride.defined /\ toLowerCase(classResolverOverride.text) = test_
    THEN "testImplementation"
    ELSE "prodImplementation"

classResolver(classResolverOverride, nodeEnv) ==
    IF classResolverOverride.defined /\ toLowerCase(classResolverOverride.text) = test_
    THEN "testImplementation"
    ELSE IF /\ classResolverOverride.defined
            /\ toLowerCase(classResolverOverride.text) \in {prod_, production_}
    THEN "prodImplementation"
    ELSE IF nodeEnv.defined
    THEN IF toLowerCase(nodeEnv.text) \in {prod_, production_, staging_}
         THEN "prodImplementation"
         ELSE IF toLowerCase(nodeEnv.text) \in {dev_, development_, test_}
         THEN "testImplementation"
         ELSE "prodImplementation"
    ELSE "prodImplementation"

\* the values the two environment variables are given
EnvTexts ==
    { <<"t", "e", "s", "t">>,
      <<"T", "E", "S", "T">>,
      <<"T", "e", "s", "t">>,
      <<"p", "r", "o", "d">>,
      <<"P", "r", "o", "d">>,
      <<"p", "r", "o", "d", "u", "c", "t", "i", "o", "n">>,
      <<"P", "R", "O", "D", "U", "C", "T", "I", "O", "N">>,
      <<"s", "t", "a", "g", "i", "n", "g">>,
      <<"S", "t", "a", "g", "i", "n", "g">>,
      <<"d", "e", "v">>,
      <<"D", "E", "V">>,
      <<"d", "e", "v", "e", "l", "o", "p", "m", "e", "n", "t">>,
      <<"D", "e", "v", "e", "l", "o", "p", "m", "e", "n", "t">>,
      <<"f", "o", "o">>,
      <<>>,
      <<"t", "e", "s", "t", "s">> }
EnvValues == {Unset} \cup {[defined |-> TRUE, text |-> text] : text \in EnvTexts}

\* the process is started with its environment
SetEnv ==
    /\ env = NoEnv
    /\ \E override \in EnvValues : \E stage \in EnvValues :
          env' = [env EXCEPT !.CLASS_RESOLVER_OVERRIDE = override, !.NODE_ENV = stage]
    /\ UNCHANGED <<table, mock, users>>

Resolve ==
    /\ env.resolved = "none"
    /\ env' = [env EXCEPT !.resolved = classResolver(env.CLASS_RESOLVER_OVERRIDE, env.NODE_ENV)]
    /\ UNCHANGED <<table, mock, users>>

NextResolver == SetEnv \/ Resolve

SpecResolver == Init /\ [][NextResolver]_vars

(***************************************************************************)
(* The process-wide emulator tables.  globalMockStorage maps a table name  *)
(* to the Map of that table; a Map is an object, named here by its place   *)
(* in mock.maps (0: the name has no entry).  A service instance keeps the  *)
(* Map its constructor found or made.                                      *)
(***************************************************************************)
MaxInstances == 3

MockItems == {A1, B1}

\* new MockDynamoDBService(tableName, ...)
Construct ==
    /\ Len(mock.instances) < MaxInstances
    /\ \E tableName \in TableNames :
          LET has == mock.globalMockStorage[tableName] # 0
              made == IF has THEN mock.maps ELSE Append(mock.maps, << >>)
              global == IF has THEN mock.globalMockStorage
                        ELSE [mock.globalMockStorage EXCEPT ![tableName] = Len(made)]
          IN mock' = [globalMockStorage |-> global,
                      maps |-> made,
                      instances |-> Append(mock.instances,
                                           [tableName |-> tableName,
                                            storage |-> global[tableName]])]
    /\ UNCHANGED <<table, env, users>>

\* globalMockStorage.clear()
Clear ==
    /\ mock' = [mock EXCEPT !.globalMockStorage = [name \in TableNames |-> 0]]
    /\ UNCHANGED <<table, env, users>>

\* instance.putItem(item)
InstancePut ==
    /\ \E i \in 1..Len(mock.instances) : \E item \in MockItems :
          mock' = [mock EXCEPT !.maps[mock.instances[i].storage] =
                                   putItem(@, item, PutOpts(NoCond, "NONE")).st]
    /\ UNCHANGED <<table, env, users>>

\* instance.deleteItem(key)
InstanceDelete ==
    /\ \E i \in 1..Len(mock.instances) : \E key \in Keys :
          mock' = [mock EXCEPT !.maps[mock.instances[i].storage] =
                                   deleteItem(@, key, PutOpts(NoCond, "NONE")).st]
    /\ UNCHANGED <<table, env, users>>

NextMock == Construct \/ Clear \/ InstancePut \/ InstanceDelete

SpecMock == Init /\ [][NextMock]_vars

(***************************************************************************)
(* The user service over the emulator.  Each method of the service awaits  *)
(* the table calls it makes, so another caller may run between two of      *)
(* them; a table call itself is one step.  The table users.userDb has the  *)
(* key schema [id]; UserId.generate() yields an id no user has.            *)
(***************************************************************************)
MaxUsers == 3

Emails == {"a@example.com", "b@example.com"}
UserKey(id) == <<<<"id", id>>>>

\* scan().index('email-index').filter('#email = :email').limit(1).execute(),
\* items[0]: the first entry, in the order of the table, with the email
getUserByEmail(db, email) ==
    LET found == {i \in 1..Len(db) : db[i].v.email = email}
    IN IF found = {} THEN NoUser
       ELSE db[CHOOSE i \in found : \A k \in found : i <= k].v

\* getItem({ id: userId })
getUserById(db, userId) ==
    LET found == {i \in 1..Len(db) : db[i].k = UserKey(userId)}
    IN IF found = {} THEN NoUser ELSE db[CHOOSE i \in found : TRUE].v

UserStep(c, rec, db) ==
    users' = [users EXCEPT !.calls[c] = rec, !.userDb = db]

\* createUser up to its first await: the email lookup is issued
CreateUser(c) ==
    /\ users.calls[c].pc = "idle"
    /\ users.generated < MaxUsers
    /\ \E email \in Emails :
          UserStep(c, [NoUserCall EXCEPT
                          !.pc = "lookup", !.op = "createUser", !.email = email,
                          !.existingUser = getUserByEmail(users.userDb, email),
                          !.held = \E i \in 1..Len(users.userDb) :
                                      users.userDb[i].v.email = email],
                   users.userDb)
    /\ UNCHANGED <<table, env, mock>>

\* createUser after the lookup: ConflictError, or putItem of the new user
CreatePut(c) ==
    /\ users.calls[c].pc = "lookup"
    /\ users.calls[c].op = "createUser"
    /\ IF users.calls[c].existingUser # NoUser
       THEN UserStep(c, [users.calls[c] EXCEPT !.pc = "done", !.result = "ConflictError"],
                     users.userDb)
       ELSE LET id == users.generated + 1
                newUser == [id |-> id, email |-> users.calls[c].email]
            IN users' = [users EXCEPT
                            !.calls[c] = [@ EXCEPT !.pc = "done", !.userId = id,
                                                   !.wrote = TRUE, !.result = "OK"],
                            !.generated = id,
                            !.userDb = MapSet(@, UserKey(id), newUser)]
    /\ UNCHANGED <<table, env, mock>>

\* updateUser up to its first await: getUserById is issued
UpdateUser(c) ==
    /\ users.calls[c].pc = "idle"
    /\ \E userId \in 1..MaxUsers : \E email \in Emails :
          UserStep(c, [NoUserCall EXCEPT
                          !.pc = "lookup", !.op = "updateUser", !.email = email,
                          !.userId = userId,
                          !.existingUser = getUserById(users.userDb, userId)],
                   users.userDb)
    /\ UNCHANGED <<table, env, mock>>

\* updateItem({ id }, SET #email = :email, ALL_NEW)
UserUpdateItem(c, db) ==
    IF getUserById(db, users.calls[c].userId) = NoUser
    THEN UserStep(c, [users.calls[c] EXCEPT !.pc = "done", !.result = "NotFoundError"], db)
    ELSE UserStep(c, [users.calls[c] EXCEPT !.pc = "done", !.wrote = TRUE, !.result = "OK"],
                  MapSet(db, UserKey(users.calls[c].userId),
                         [id |-> users.calls[c].userId, email |-> users.calls[c].email]))

\* updateUser after getUserById: NotFoundError, the conflict lookup when the
\* email changes, the update otherwise
UpdateCheck(c) ==
    /\ users.calls[c].pc = "lookup"
    /\ users.calls[c].op = "updateUser"
    /\ IF users.calls[c].existingUser = NoUser
       THEN UserStep(c, [users.calls[c] EXCEPT !.pc = "done", !.result = "NotFoundError"],
                     users.userDb)
       ELSE IF users.calls[c].email # users.calls[c].existingUser.email
       THEN UserStep(c, [users.calls[c] EXCEPT
                            !.pc = "conflict",
                            !.existingUser = getUserByEmail(users.userDb, users.calls[c].email)],
                     users.userDb)
       ELSE UserUpdateItem(c, users.userDb)
    /\ UNCHANGED <<table, env, mock>>

\* updateUser after the conflict lookup: ConflictError, or the update
UpdateWrite(c) ==
    /\ users.calls[c].pc = "conflict"
    /\ IF /\ users.calls[c].existingUser # NoUser
          /\ users.calls[c].existingUser.id # users.calls[c].userId
       THEN UserStep(c, [users.calls[c] EXCEPT !.pc = "done", !.result = "ConflictError"],
                     users.userDb)
       ELSE UserUpdateItem(c, users.userDb)
    /\ UNCHANGED <<table, env, mock>>

UserReturn(c) ==
    /\ users.calls[c].pc = "done"
    /\ UserStep(c, NoUserCall, users.userDb)
    /\ UNCHANGED <<table, env, mock>>

NextUsers ==
    \E c \in Callers :
        \/ CreateUser(c)
        \/ CreatePut(c)
        \/ UpdateUser(c)
        \/ UpdateCheck(c)
        \/ UpdateWrite(c)
        \/ UserReturn(c)

SpecUsers == Init /\ [][NextUsers]_vars

(***************************************************************************)
(* Vocabulary of the properties.                                           *)
(***************************************************************************)
\* caller c calls operation op in this step
Started(c, op) == pc[c] = "idle" /\ pc'[c] # "idle" /\ call'[c].op = op

\* the serialized key of a key or of an item
KeyStr(keyOrItem) == serializeKey(buildKey(keyOrItem))

\* what the conditions used by the callers mean, stated on the item itself
CondHolds(item, cond) ==
    CASE cond = NoCond -> TRUE
      [] cond = NotExistsPk -> item = NoItem
      [] cond = ExistsPk -> item # NoItem
      [] cond = StatusActive -> item # NoItem /\ item["status"] = ACTIVE
      [] OTHER -> FALSE

\* caller c makes a call of one of the kinds (put, update, delete) on key
\* string k in this step, directly or as a member of its transaction
Wrote(c, k, kinds) ==
    \/ "put" \in kinds /\ Started(c, "putItem") /\ KeyStr(call'[c].item) = k
    \/ "update" \in kinds /\ Started(c, "updateItem") /\ KeyStr(call'[c].key) = k
    \/ "delete" \in kinds /\ Started(c, "deleteItem") /\ KeyStr(call'[c].key) = k
    \/ /\ call'[c].op = "transactWrite"
       /\ idx'[c] # idx[c]
       /\ idx'[c] - 1 \in 1..Len(call'[c].ops)
       /\ Calls(call'[c].ops[idx'[c] - 1])
       /\ call'[c].ops[idx'[c] - 1].operation \in kinds
       /\ serializeKey(MemberKey(call'[c].ops[idx'[c] - 1])) = k

IsTx(c) == call[c].op = "transactWrite"

IsCondPut(cl) == cl.op = "putItem" /\ cl.cond = NotExistsPk

\* member j of c's transaction has had its condition evaluated to true
EvaluatedTrue(c, j) ==
    /\ Calls(call[c].ops[j])
    /\ j < idx[c]
    /\ ~(/\ pc[c] = "done"
         /\ res[c].code \in {CONDITIONAL_CHECK_FAILED, NOT_FOUND}
         /\ j = idx[c] - 1)

(***************************************************************************)
(* Properties.                                                             *)
(***************************************************************************)

\* C1: transactWrite is all-or-nothing: whenever the condition of a member
\* (put, update, delete or conditionCheck, at any position) is false on the
\* table the call starts from, the call raises an error and no member of the
\* group has been applied to the table.
C1_AllOrNothing ==
    \A c \in Callers :
        (/\ pc[c] = "done" /\ IsTx(c)
         /\ \E j \in 1..Len(call[c].ops) :
               /\ Calls(call[c].ops[j]) \/ j \in PreChecked(call[c].ops)
               /\ ~atStart[c][j])
            => (res[c].code # OK /\ applied[c] = 0)

\* C2: putItem(I, attribute_not_exists(pk)) succeeds and stores I when no
\* item is stored under key(I), and raises ConditionalCheckFailed, leaving
\* the table alone, whenever an item is stored under key(I).
C2_ConditionalPut ==
    [][\A c \in Callers :
          (Started(c, "putItem") /\ IsCondPut(call'[c])) =>
              LET item == call'[c].item
                  k == KeyStr(item)
              IN IF MapHas(storage, k)
                 THEN res'[c].code = CONDITIONAL_CHECK_FAILED /\ storage' = storage
                 ELSE SchemaOk(item) =>
                          (res'[c].code = OK /\ MapGet(storage', k) = item)]_vars

\* a conditional put of an item is refused right after the same item was stored
C2_Witness ==
    \E c \in Callers :
        /\ pc[c] = "done" /\ IsCondPut(call[c])
        /\ res[c].code = CONDITIONAL_CHECK_FAILED
        /\ MapGet(storage, KeyStr(call[c].item)) = call[c].item

\* C3: of two conditional puts (attribute_not_exists(pk)) on the same absent
\* key that are outstanding together, exactly one succeeds: the first to run
\* succeeds and the other raises ConditionalCheckFailed.
C3_ConcurrentConditionalPuts ==
    [][\A d \in Callers :
          (Started(d, "putItem") /\ IsCondPut(call'[d])) =>
              LET k == KeyStr(call'[d].item)
              IN /\ (~MapHas(storage, k) /\ SchemaOk(call'[d].item))
                        => res'[d].code = OK
                 /\ \A c \in Callers \ {d} :
                        (/\ pc[c] = "done" /\ IsCondPut(call[c])
                         /\ KeyStr(call[c].item) = k
                         /\ res[c].code = OK)
                            => res'[d].code = CONDITIONAL_CHECK_FAILED]_vars

\* both callers have an outstanding conditional put on one key: one succeeded,
\* the other failed
C3_Witness ==
    \E c, d \in Callers :
        /\ c # d /\ pc[c] = "done" /\ pc[d] = "done"
        /\ IsCondPut(call[c]) /\ IsCondPut(call[d])
        /\ KeyStr(call[c].item) = KeyStr(call[d].item)
        /\ res[c].code = OK
        /\ res[d].code = CONDITIONAL_CHECK_FAILED

\* C4: right after a successful putItem(I), getItem(key(I)) returns I,
\* attribute by attribute, whatever was stored under the key before (full
\* replace); and what getItem returns for a key changes only in a step that
\* writes that key.
C4_PutThenGet ==
    [][/\ \A c \in Callers :
             (Started(c, "putItem") /\ res'[c].code = OK) =>
                 getItem(storage', buildKey(call'[c].item))
                     = Outcome(storage', OK, call'[c].item)
       /\ \A key \in Keys :
             getItem(storage', key).value # getItem(storage, key).value
                 => \E c \in Callers : Wrote(c, KeyStr(key), {"put", "update", "delete"})]_vars

\* a put replaced an item that carried a note by one that has none
C4_Witness ==
    \E c \in Callers :
        /\ pc[c] = "done" /\ call[c].op = "putItem" /\ res[c].code = OK
        /\ res[c].value # NoItem
        /\ res[c].value["note"] # UNDEF
        /\ call[c].item["note"] = UNDEF
        /\ getItem(storage, buildKey(call[c].item)).value = call[c].item

\* C5: a successful deleteItem(key) makes getItem(key) return absent, the key
\* stays absent until a put writes it again, and deleteItem on a key with no
\* stored item raises NotFound.
C5_DeleteThenGet ==
    [][/\ \A c \in Callers :
             Started(c, "deleteItem") =>
                 LET key == call'[c].key
                 IN /\ res'[c].code = OK
                         => getItem(storage', key) = Outcome(storage', OK, NoItem)
                    /\ ~MapHas(storage, KeyStr(key))
                         => (res'[c].code = NOT_FOUND /\ storage' = storage)
       /\ \A key \in Keys :
             (getItem(storage, key).value = NoItem /\ getItem(storage', key).value # NoItem)
                 => \E c \in Callers : Wrote(c, KeyStr(key), {"put"})]_vars

\* one caller deleted a key and the other caller's delete of it raised NotFound
C5_Witness ==
    \E c, d \in Callers :
        /\ c # d /\ pc[c] = "done" /\ pc[d] = "done"
        /\ call[c].op = "deleteItem" /\ call[d].op = "deleteItem"
        /\ call[c].key = call[d].key
        /\ res[c].code = OK /\ res[d].code = NOT_FOUND
        /\ getItem(storage, call[c].key).value = NoItem

\* C6: a putItem, updateItem or deleteItem that raises NotFound,
\* ConditionalCheckFailed or ValidationFailed leaves the table as it was.
C6_ErrorsLeaveTable ==
    [][\A c \in Callers :
          (/\ Started(c, "putItem") \/ Started(c, "updateItem") \/ Started(c, "deleteItem")
           /\ res'[c].code \in {NOT_FOUND, CONDITIONAL_CHECK_FAILED, VALIDATION_ERROR})
              => storage' = storage]_vars

\* an update whose result does not match the schema was refused
C6_Witness ==
    \E c \in Callers :
        /\ pc[c] = "done" /\ call[c].op = "updateItem"
        /\ res[c].code = VALIDATION_ERROR
        /\ MapHas(storage, KeyStr(call[c].key))
        /\ SchemaOk(MapGet(storage, KeyStr(call[c].key)))

\* C7: updateItem raises NotFound when the key has no item, whatever the
\* condition; raises ConditionalCheckFailed when the item exists and the
\* condition is false; and changes the table only when the item exists and
\* the condition holds, storing the item the update expression gives.
C7_UpdateErrors ==
    [][\A c \in Callers :
          Started(c, "updateItem") =>
              LET k == KeyStr(call'[c].key)
                  existing == MapGet(storage, k)
                  holds == CondHolds(existing, call'[c].cond)
              IN /\ existing = NoItem => res'[c].code = NOT_FOUND
                 /\ (existing # NoItem /\ ~holds)
                        => res'[c].code = CONDITIONAL_CHECK_FAILED
                 /\ storage' # storage => (existing # NoItem /\ holds)
                 /\ res'[c].code = OK
                        => MapGet(storage', k)
                             = applyUpdateExpression(existing, call'[c].updateExpression)]_vars

\* an update with a condition that is true of an absent item raised NotFound,
\* and an update of a stored item raised ConditionalCheckFailed
C7_Witness ==
    \E c, d \in Callers :
        /\ pc[c] = "done" /\ call[c].op = "updateItem"
        /\ call[c].cond = NotExistsPk /\ res[c].code = NOT_FOUND
        /\ pc[d] = "done" /\ call[d].op = "updateItem"
        /\ res[d].code = CONDITIONAL_CHECK_FAILED

\* C8: when a member condition of a transactWrite fails, the error raised is
\* TransactionCancelled (code TRANSACTION_CANCELLED, status 400).
C8_TransactionCancelled ==
    \A c \in Callers :
        (pc[c] = "done" /\ IsTx(c) /\ failedAt[c] # 0)
            => (res[c].code = TRANSACTION_CANCELLED /\ res[c].status = 400)

C10_ConditionsAtCallStart ==
    \A c \in Callers :
        IsTx(c) =>
            \A j \in 1..Len(call[c].ops) :
                /\ failedAt[c] = j => ~atStart[c][j]
                /\ EvaluatedTrue(c, j) => atStart[c][j]

(***************************************************************************)
(* Properties of the batch operations.                                     *)
(***************************************************************************)
\* caller c is suspended inside transactWrite or batchWrite after a mutation
\* of that call has been applied, and the call's next step applies another
\* one whatever the table holds then: an unconditional put of a valid item
MidCall(c) ==
    /\ pc[c] \in {"tx", "bw"}
    /\ applied[c] >= 1
    /\ LET ops == call[c].ops
           j == IF pc[c] = "tx" THEN NextCall(ops, idx[c])
                ELSE IF idx[c] <= Len(ops) THEN idx[c] ELSE 0
       IN /\ j # 0
          /\ ops[j].operation = "put"
          /\ ops[j].cond = NoCond
          /\ SchemaOk(ops[j].item)

\* C11: a transactWrite or batchWrite call is a critical section over the
\* table: while a caller is between the first and the last mutation of such a
\* call, no other caller's operation reads or writes the table.
C11_CriticalSection ==
    [][\A c \in Callers : \A d \in Callers \ {c} :
          MidCall(c) => ~(pc[d] = "idle" /\ pc'[d] # "idle")]_vars

\* the backend answers the request in flight with a response
Responded == net.pc = "sending" /\ net'.answer = "response" /\ net'.retryCount >= net.retryCount
                /\ net' # net

\* the progress measure of the networked batchWrite: the chunks not yet
\* started, then the sends the current chunk has left, then the phase
NetMeasure(rec) ==
    IF rec.pc \in {"done", "off"} THEN 0
    ELSE IF rec.pc = "idle" THEN 1000
    ELSE (13 * ((rec.n - rec.i - 1) \div 25)) + (2 * (6 - rec.sends))
            + (IF rec.pc = "sending" THEN 1 ELSE 0)

\* C12: the networked batchWrite sends at most 6 requests per chunk (the
\* first and 5 retries) and makes progress with every step, so it ends even
\* if every response reports unprocessed items; when the response to the last
\* allowed request still reports unprocessed items it raises UNKNOWN_ERROR
\* (status 500) with the message that items could not be processed, and no
\* later chunk is sent.
C12_BoundedRetry ==
    [][/\ net'.sends <= 6
       /\ net'.retryCount <= 5
       /\ NetMeasure(net') >= 0
       /\ net' # net => NetMeasure(net') < NetMeasure(net)
       /\ (Responded /\ net.sends = 6 /\ net'.unprocessed # {}) =>
             /\ net'.pc = "done"
             /\ net'.code = "UNKNOWN_ERROR"
             /\ net'.status = 500
             /\ net'.message = "Some items could not be processed after retries"
             /\ net'.started = 1..Min(net.i + 25, net.n)
       /\ net.pc = "done" => net' = net]_vars

C12_Witness ==
    /\ net.pc = "done"
    /\ net.answer = "response"
    /\ net.sends = 6
    /\ net.unprocessed # {}
    /\ net.code = "UNKNOWN_ERROR"
    /\ net.i + 25 < net.n

\* C13: every retry request of the networked batchWrite carries exactly the
\* write requests the preceding response reported as unprocessed; a write
\* request reported processed is never sent again; and no retry follows a
\* response that reports nothing unprocessed.
C13_RetryOnlyUnprocessed ==
    [][/\ (net'.pc = "sending" /\ net'.phase = "retry" /\ net' # net) =>
             /\ net.answer = "response"
             /\ net'.request = net.unprocessed
             /\ net'.request # {}
       /\ (net'.pc = "sending" /\ net' # net) => net'.request \cap net.processed = {}
       /\ (Responded /\ net'.unprocessed = {}) =>
             \/ net'.pc = "done" /\ net'.code = "OK"
             \/ net'.pc = "sending" /\ net'.phase = "initial" /\ net'.i > net.i
       /\ net'.pc = "waiting" => net'.unprocessed # {}]_vars

C13_Witness ==
    /\ net.pc = "sending"
    /\ net.phase = "retry"
    /\ net.retryCount >= 1
    /\ net.processed # {}
    /\ net.request # {}
    /\ Cardinality(net.request) < MaxUnprocessed

\* caller c's batchWrite hands operations to the table in this step
BatchProgress(c) ==
    /\ call'[c].op = "batchWrite"
    /\ pc[c] \in {"idle", "bw"}
    /\ pc'[c] = "bw"
    /\ idx'[c] # idx[c]

\* C14: batchWrite processes its operations in consecutive chunks of at most
\* 25 in input order: the first request of a chunk carries the next 25 (or
\* the remaining) positions, no request carries more than 25, a chunk is
\* started only when the chunk before it is fully processed, a call that
\* succeeds has processed every position; and the emulator works in the same
\* chunks: each time its batchWrite hands operations to the table, it has
\* processed the operations up to the end of a chunk.
C14_Chunking ==
    [][/\ (net'.pc = "sending" /\ net'.phase = "initial" /\ net' # net) =>
             LET done == Cardinality(net.started)
             IN /\ net.started = 1..done
                /\ net'.request = (done + 1)..Min(done + 25, net'.n)
                /\ net'.processed = net.started
       /\ Cardinality(net'.request) <= 25
       /\ (net'.pc = "done" /\ net'.code = "OK") => net'.processed = 1..net'.n
       /\ \A c \in Callers :
             BatchProgress(c) =>
                LET done == IF pc[c] = "idle" THEN 0 ELSE idx[c] - 1
                IN idx'[c] - 1 = Min(done + 25, Len(call'[c].ops))]_vars

\* the items the table holds under the key attributes of key
Held(st, key) ==
    {st[i].v : i \in {j \in 1..Len(st) : \A a \in KeyAttrs : st[j].v[a] = key[a]}}

\* the elements of a sequence
Range(seq) == {seq[i] : i \in 1..Len(seq)}

\* C15: getItem for a key under which nothing is stored returns absent and
\* raises no error, and getItem never changes the table.
C15_GetAbsent ==
    [][\A c \in Callers :
          Started(c, "getItem") =>
              /\ storage' = storage
              /\ Held(storage, call'[c].key) = {} =>
                    /\ res'[c].code = OK
                    /\ res'[c].value = NoItem]_vars

\* a getItem found nothing under its key while the table held another item
C15_Witness ==
    \E c \in Callers :
        /\ pc[c] = "done" /\ call[c].op = "getItem"
        /\ res[c].code = OK /\ res[c].value = NoItem
        /\ Held(storage, call[c].key) = {}
        /\ storage # << >>

\* C16: batchGet(keys) returns exactly the stored items whose key is in keys:
\* each step of the call reads one key, adds the item stored under it (if
\* any) to the results and raises no error; the call ends without error with
\* nothing but items of requested keys; and on a table that nobody changes
\* meanwhile the result is the set of stored items with a requested key.
C16_BatchGet ==
    [][/\ \A c \in Callers :
             /\ ( /\ call'[c].op = "batchGet"
                  /\ pc[c] \in {"idle", "bg"}
                  /\ idx'[c] # idx[c] ) =>
                    LET key == call'[c].ops[idx'[c] - 1].key
                        before == IF pc[c] = "idle" THEN << >> ELSE acc[c]
                        found == Held(storage, key)
                    IN /\ storage' = storage
                       /\ pc'[c] = "bg"
                       /\ Len(acc'[c]) = Len(before) + Cardinality(found)
                       /\ \A i \in 1..Len(before) : acc'[c][i] = before[i]
                       /\ found # {} => acc'[c][Len(acc'[c])] \in found
             /\ (call'[c].op = "batchGet" /\ pc'[c] = "done") =>
                    /\ res'[c].code = OK
                    /\ Len(acc'[c]) <= Len(call'[c].ops)
                    /\ \A x \in Range(acc'[c]) :
                          \E j \in 1..Len(call'[c].ops) :
                              \A a \in KeyAttrs : x[a] = call'[c].ops[j].key[a]
       /\ \A keys \in BatchGetInputs :
             LET r == batchGet(storage', keys)
             IN /\ r.code = OK
                /\ Range(r.value) = UNION {Held(storage', keys[j].key) : j \in 1..Len(keys)}]_vars

\* a batchGet of two keys has ended with one item: the other key was absent
C16_Witness ==
    \E c \in Callers :
        /\ pc[c] = "done" /\ call[c].op = "batchGet" /\ res[c].code = OK
        /\ Len(call[c].ops) = 2
        /\ Len(acc[c]) = 1
        /\ Len(storage) = 1

\* the number of distinct keys the table holds
DistinctKeys(st) == Cardinality({[a \in KeyAttrs |-> st[i].v[a]] : i \in 1..Len(st)})

\* C17: getItemCount() is the number of distinct keys stored: a successful
\* putItem raises it by one when the key was absent and leaves it unchanged
\* when the key was present, and a successful deleteItem lowers it by one.
C17_ItemCount ==
    [][/\ getItemCount(storage') = DistinctKeys(storage')
       /\ \A c \in Callers :
             /\ (Started(c, "putItem") /\ res'[c].code = OK) =>
                    getItemCount(storage') =
                        getItemCount(storage)
                          + (IF Held(storage, call'[c].item) = {} THEN 1 ELSE 0)
             /\ (Started(c, "deleteItem") /\ res'[c].code = OK) =>
                    getItemCount(storage') = getItemCount(storage) - 1
             /\ Started(c, "getItemCount") =>
                    /\ res'[c].code = OK
                    /\ res'[c].value = Num(DistinctKeys(storage))
                    /\ storage' = storage]_vars

\* getItemCount returned 1 after a put on a present key and a delete
C17_Witness ==
    \E c \in Callers : \E d \in Callers \ {c} :
        /\ pc[c] = "done" /\ call[c].op = "getItemCount" /\ res[c].value = Num(1)
        /\ pc[d] = "done" /\ call[d].op = "deleteItem" /\ res[d].code = OK

(***************************************************************************)
(* Properties of query and scan.                                           *)
(***************************************************************************)
\* the items the table holds
StoredItems == {storage[i].v : i \in 1..Len(storage)}

\* the number a string of digits writes
NumberOf(value) ==
    CASE value = D1 -> 1
      [] value = D12 -> 12
      [] value = D2 -> 2
      [] OTHER -> value.v

\* the decimal writing of n begins with the decimal writing of prefix
DecimalPrefix(prefix, n) == \E k \in {1, 10, 100} : n \div k = prefix /\ (k = 1 \/ n >= k)

\* the sort-key conditions on a numeric sort key, in terms of numbers
Satisfies(sk, condition) ==
    CASE condition.operator = "none" -> TRUE
      [] condition.operator = "=" -> sk = condition.value.v
      [] condition.operator = ">" -> sk > condition.value.v
      [] condition.operator = ">=" -> sk >= condition.value.v
      [] condition.operator = "<" -> sk < condition.value.v
      [] condition.operator = "<=" -> sk <= condition.value.v
      [] condition.operator = "begins_with" -> DecimalPrefix(NumberOf(condition.value), sk)
      [] condition.operator = "between" ->
            condition.start.v <= sk /\ sk <= condition.end.v

\* the filters, in terms of the item's attributes
FilterHolds(item, f) ==
    CASE f = StatusActive -> item["status"] = ACTIVE
      [] f = ExistsNote -> item["note"] # UNDEF
      [] OTHER -> TRUE

\* C18: a query with no limit and no filter returns exactly the stored items
\* of the queried partition whose sort key satisfies the sort-key condition
\* (between including both bounds), each once, and count is their number.
C18_QueryExact ==
    ( /\ qb.kind = "query"
      /\ qb.result.executed
      /\ qb.limitValue = UNDEF
      /\ qb.filter = NoCond ) =>
        /\ Range(qb.result.items) =
              {item \in StoredItems :
                  /\ item["pk"] = qb.partitionKeyValue
                  /\ Satisfies(item["sk"].v, qb.sortKeyCondition)}
        /\ Cardinality(Range(qb.result.items)) = Len(qb.result.items)
        /\ qb.result.count = Len(qb.result.items)

\* a between query returned the item on its upper bound and left out an item
\* of its partition, while the table held an item of the other partition
C18_Witness ==
    /\ qb.kind = "query" /\ qb.result.executed
    /\ qb.limitValue = UNDEF /\ qb.filter = NoCond
    /\ qb.sortKeyCondition.operator = "between"
    /\ \E item \in Range(qb.result.items) : item["sk"] = qb.sortKeyCondition.end
    /\ \E item \in StoredItems :
          item["pk"] = qb.partitionKeyValue /\ item \notin Range(qb.result.items)
    /\ \E item \in StoredItems : item["pk"] # qb.partitionKeyValue

\* C19: a scan with a filter and no limit returns exactly the stored items
\* for which the filter is true, and scannedCount is the number of items in
\* the table, the excluded ones included.
C19_ScanFilter ==
    ( /\ qb.kind = "scan"
      /\ qb.result.executed
      /\ qb.limitValue = UNDEF
      /\ qb.filter # NoCond ) =>
        /\ Range(qb.result.items) = {item \in StoredItems : FilterHolds(item, qb.filter)}
        /\ Cardinality(Range(qb.result.items)) = Len(qb.result.items)
        /\ qb.result.scannedCount = Cardinality(StoredItems)

\* a filtered scan returned some of the items and excluded others
C19_Witness ==
    /\ qb.kind = "scan" /\ qb.result.executed
    /\ qb.limitValue = UNDEF /\ qb.filter # NoCond
    /\ qb.result.items # << >>
    /\ Len(qb.result.items) < Len(storage)
    /\ qb.result.scannedCount = Len(storage)

\* C20: every result of execute() has count = number of returned items and
\* scannedCount >= count, and with a limit n > 0 at most n items.
C20_ResultCounts ==
    qb.result.executed =>
        /\ qb.result.count = Len(qb.result.items)
        /\ qb.result.scannedCount >= qb.result.count
        /\ (qb.limitValue.t = "N" /\ qb.limitValue.v > 0) =>
              Len(qb.result.items) <= qb.limitValue.v

\* a limit of 1 cut a result short: more items were there to be returned
C20_Witness ==
    /\ qb.result.executed
    /\ qb.limitValue = Num(1)
    /\ qb.sortKeyCondition = NoSortKeyCondition /\ qb.filter = NoCond
    /\ Len(qb.result.items) = 1
    /\ qb.result.scannedCount < Len(storage)

(***************************************************************************)
(* Properties of ordering, pagination and streaming.                       *)
(***************************************************************************)
\* the stored items the builder's request matches
Matching(b) ==
    {item \in StoredItems :
        /\ b.kind = "query" =>
              /\ item["pk"] = b.partitionKeyValue
              /\ Satisfies(item["sk"].v, b.sortKeyCondition)
        /\ FilterHolds(item, b.filter)}

\* the batches of a stream laid end to end
RECURSIVE Concat(_)
Concat(batches) ==
    IF batches = << >> THEN << >> ELSE Head(batches) \o Concat(Tail(batches))

\* C21: the items an executed query returns are ordered by the sort key,
\* non-decreasing by default and non-increasing after scanBackward(),
\* whatever the insertion order was.
C21_QueryOrdered ==
    (qb.kind = "query" /\ qb.result.executed) =>
        \A i \in 1..Len(qb.result.items) : \A j \in i..Len(qb.result.items) :
            IF qb.scanIndexForwardFlag
            THEN qb.result.items[i]["sk"].v <= qb.result.items[j]["sk"].v
            ELSE qb.result.items[i]["sk"].v >= qb.result.items[j]["sk"].v

\* a backward query returned two items that were inserted in ascending order
C21_Witness ==
    /\ qb.kind = "query" /\ qb.result.executed
    /\ ~qb.scanIndexForwardFlag
    /\ Len(qb.result.items) >= 2
    /\ \E i \in 1..Len(storage) : \E j \in i..Len(storage) :
          /\ storage[i].v \in Range(qb.result.items)
          /\ storage[j].v \in Range(qb.result.items)
          /\ storage[i].v["sk"].v < storage[j].v["sk"].v

\* C22: a result of execute() that carries no lastEvaluatedKey holds every
\* stored item that matches the request, also when a limit was set.
C22_NoTokenComplete ==
    (qb.result.executed /\ qb.result.lastEvaluatedKey = NoKey) =>
        Range(qb.result.items) = Matching(qb)

\* C24: a stream drained to its end has yielded every stored item that
\* matches the builder's filter exactly once, whatever limit was configured.
C24_StreamComplete ==
    qb.stream.done =>
        /\ Range(Concat(qb.stream.batches)) = Matching(qb)
        /\ Len(Concat(qb.stream.batches)) = Cardinality(Matching(qb))

\* the networked stream receives a page in this step
PageReceived == prod.op = "scanStream" /\ prod.pc = "sent" /\ prod' # prod

\* C23: the networked scanStream scans again from the continuation token of
\* the response it just received, yields a page only when it has items, and
\* ends with the first response that carries no token; once ended it issues
\* no further scan.
C23_StreamProtocol ==
    [][/\ PageReceived =>
            LET page == prod'.answer
                wellFormed == /\ page.kind = "ok"
                              /\ \A i \in 1..Len(page.Items) : SchemaOk(page.Items[i])
            IN /\ prod'.pages = prod.pages + 1
               /\ wellFormed =>
                    /\ prod'.batches = IF page.Items = << >> THEN prod.batches
                                       ELSE Append(prod.batches, page.Items)
                    /\ page.LastEvaluatedKey # NoKey =>
                          /\ prod'.pc = "sent"
                          /\ prod'.request.command = "Scan"
                          /\ prod'.request.ExclusiveStartKey = page.LastEvaluatedKey
                    /\ page.LastEvaluatedKey = NoKey =>
                          /\ prod'.pc = "done"
                          /\ prod'.result.code = OK
               /\ \A i \in 1..Len(prod'.batches) : prod'.batches[i] # << >>
       /\ (prod.op = "scanStream" /\ prod.pc = "done") => prod' = prod]_vars

\* an iteration ended after three scans, one of whose pages was empty and
\* was not yielded
C23_Witness ==
    /\ prod.op = "scanStream" /\ prod.pc = "done" /\ prod.result.code = OK
    /\ prod.pages >= 3
    /\ Len(prod.batches) = prod.pages - 1
    /\ prod.answer.LastEvaluatedKey = NoKey

\* the item type carries both timestamp fields
HasTimestamps(item) == item["createdAt"] # UNDEF /\ item["updatedAt"] # UNDEF

\* the timestamps a put at the current time is to leave on the item
PutStamped(item) ==
    [item EXCEPT !["createdAt"] = IF @ = EMPTY THEN Now ELSE @, !["updatedAt"] = Now]

\* C25: on both implementations the item a successful putItem hands to the
\* store has createdAt set to the current time only when it was unset and
\* updatedAt replaced by the current time.
C25_PutTimestamps ==
    [][/\ (prod' # prod /\ prod'.op = "putItem" /\ prod'.pc = "sent"
             /\ HasTimestamps(prod'.item)) =>
                prod'.request.Item = PutStamped(prod'.item)
       /\ \A c \in Callers :
             (Started(c, "putItem") /\ res'[c].code = OK
                 /\ HasTimestamps(call'[c].item)) =>
                    Held(storage', call'[c].item) = {PutStamped(call'[c].item)}]_vars

\* C26: a successful updateItem applies every SET assignment and ADD clause
\* of the caller and sets updatedAt to the time of the call, on both
\* implementations; the networked request keeps the caller's assignments and
\* carries the updatedAt assignment in its SET clause.
C26_UpdateTimestamp ==
    [][/\ (prod' # prod /\ prod'.op = "updateItem" /\ prod'.pc = "sent") =>
            LET sent == prod'.request.UpdateExpression
                given == prod'.options.updateExpression
            IN /\ sent.add = given.add
               /\ Len(sent.set) = Len(given.set) + 1
               /\ \A i \in 1..Len(given.set) : sent.set[i] = given.set[i]
               /\ sent.set[Len(sent.set)] = Asg("updatedAt", Now)
       /\ \A c \in Callers :
             (Started(c, "updateItem") /\ res'[c].code = OK) =>
                 \A old \in Held(storage, call'[c].key) :
                     Held(storage', call'[c].key) =
                         {[applyUpdateExpression(old, call'[c].updateExpression)
                              EXCEPT !["updatedAt"] = Now]}]_vars

\* C27: putItem of an item that does not match the schema raises
\* VALIDATION_ERROR and hands nothing to the store, on both implementations.
C27_InvalidPut ==
    /\ (prod.op = "putItem" /\ ~SchemaOk(prod.item)) =>
          /\ prod.request.command = "none"
          /\ prod.pc = "done" => prod.result.code = VALIDATION_ERROR
    /\ \A c \in Callers :
          (pc[c] = "done" /\ call[c].op = "putItem" /\ call[c].cond = NoCond
              /\ ~SchemaOk(call[c].item)) =>
                 /\ res[c].code = VALIDATION_ERROR
                 /\ call[c].item \notin StoredItems

\* C28: updateItem and deleteItem on a key that has no item raise NOT_FOUND
\* on the networked implementation as on the emulator, and the key has no
\* item afterwards.
C28_AbsentKey ==
    [][/\ (prod.pc = "sent" /\ prod'.pc = "done"
             /\ prod.op \in {"updateItem", "deleteItem"} /\ ~prod.held) =>
                prod'.result.code = NOT_FOUND
       /\ \A c \in Callers :
             ((Started(c, "updateItem") \/ Started(c, "deleteItem"))
                 /\ Held(storage, call'[c].key) = {}) =>
                    /\ res'[c].code = NOT_FOUND
                    /\ Held(storage', call'[c].key) = {}]_vars

\* the networked operation validated an item of the backend's response and
\* the item does not match the schema
ReturnedInvalid ==
    /\ prod.pc = "done"
    /\ prod.answer.kind = "ok"
    /\ CASE prod.op = "getItem" ->
               prod.answer.Item # NoItem /\ ~SchemaOk(prod.answer.Item)
         [] prod.op \in {"putItem", "deleteItem"} ->
               /\ prod.options.returnValues = "ALL_OLD"
               /\ prod.answer.Attributes # NoItem /\ ~SchemaOk(prod.answer.Attributes)
         [] prod.op = "updateItem" ->
               /\ prod.options.returnValues # "NONE"
               /\ prod.answer.Attributes # NoItem /\ ~SchemaOk(prod.answer.Attributes)
         [] prod.op = "batchGet" ->
               \E i \in 1..Len(prod.answer.Items) : ~SchemaOk(prod.answer.Items[i])
         [] OTHER -> FALSE

\* C29: when an item returned by the backend fails schema validation, the
\* networked operation fails with code VALIDATION_ERROR and status 422.
C29_ValidationKind ==
    ReturnedInvalid =>
        /\ prod.result.code = VALIDATION_ERROR
        /\ prod.result.status = 422

\* C30: in the result of applyUpdateExpression an attribute named by a
\* single ADD clause holds prior + addend when both are numbers, the addend
\* when the attribute was absent and the addend is a number, and its prior
\* value otherwise.
C30_AddNumericOnly ==
    \A c \in Callers :
        (pc[c] = "done" /\ call[c].op = "applyUpdateExpression") =>
            LET upd == call[c].updateExpression
            IN Len(upd.add) = 1 =>
                 LET clause == upd.add[1]
                     prior == call[c].item[clause.a]
                 IN res[c].value[clause.a] =
                        IF clause.v.t = "N" /\ prior.t = "N" THEN Num(prior.v + clause.v.v)
                        ELSE IF clause.v.t = "N" /\ prior = UNDEF THEN clause.v
                        ELSE prior

\* C40: a query with limit(n) returns the n matching items that come first
\* in the requested sort-key order: no matching item that was left out
\* precedes a returned one, and n items are returned when n match.
C40_LimitFirstInOrder ==
    (qb.kind = "query" /\ qb.result.executed /\ Truthy(qb.limitValue)) =>
        /\ Len(qb.result.items) = Min(qb.limitValue.v, Cardinality(Matching(qb)))
        /\ \A returned \in Range(qb.result.items) :
           \A left \in Matching(qb) \ Range(qb.result.items) :
               IF qb.scanIndexForwardFlag
               THEN returned["sk"].v <= left["sk"].v
               ELSE returned["sk"].v >= left["sk"].v

\* C33: at most one sort-key condition is active on a query builder: after
\* addSortKey(c1) and addSortKey(c2) the builder's key condition and values
\* are those of a builder on which only addSortKey(c2) was called.
C33_LastSortKeyOnly ==
    (prod.op = "query" /\ prod.conditions # << >>) =>
        LET only == addSortKey(NewQuery(prod.expressionAttributeValues.pkval),
                               prod.conditions[Len(prod.conditions)])
        IN /\ prod.keyConditionExpression = only.keyConditionExpression
           /\ prod.expressionAttributeValues = only.expressionAttributeValues

\* C32: query(v).index(name).execute() returns the stored items whose
\* attribute named by the index's partition key equals v.
C32_IndexRedirects ==
    (qb.kind = "query" /\ qb.result.executed /\ qb.indexName \in DOMAIN Indexes) =>
        Range(qb.result.items) =
            {item \in StoredItems : item[Indexes[qb.indexName][1][1]] = qb.partitionKeyValue}

\* caller c holds the result of evaluateCondition
Evaluated(c) == pc[c] = "done" /\ call[c].op = "evaluateCondition"

\* C31: condition evaluation is fail-closed: an absent expression is true;
\* an expression of an unsupported form (NOT-prefixed, or any other form) is
\* false; an ordering comparison of operands that are not both strings or
\* both numbers is false.
C31_FailClosed ==
    \A c \in Callers :
        Evaluated(c) =>
            LET expr == call[c].cond.expr
                item == call[c].item
            IN /\ expr = << >> => res[c].value = Bool(TRUE)
               /\ (HasTok(expr, "NOT") \/ HasTok(expr, "other")) => res[c].value = Bool(FALSE)
               /\ ( /\ Len(expr) = 1 /\ expr[1].k = "cmp" /\ expr[1].op # "="
                    /\ ~(item[expr[1].a].t = expr[1].v.t /\ expr[1].v.t \in {"S", "N"}) ) =>
                        res[c].value = Bool(FALSE)

\* C39: X OR Y AND Z evaluates to X or (Y and Z), for every item and every
\* truth value of the three sub-conditions.
C39_AndBindsTighter ==
    \A c \in Callers :
        (Evaluated(c) /\ Len(call[c].cond.expr) = 5) =>
            LET expr == call[c].cond.expr
                Holds(x) == EvalCond(call[c].item, MkCond(<<x>>, call[c].cond.names,
                                                             call[c].cond.values))
            IN res[c].value = Bool(Holds(expr[1]) \/ (Holds(expr[3]) /\ Holds(expr[5])))

\* C38: every table entry is stored under the canonical serialized key
\* built from the item's own key attribute values.
C38_StoredUnderOwnKey ==
    \A i \in 1..Len(storage) : storage[i].k = KeyStr(storage[i].v)

\* the two texts are the same word up to the case of their letters
SameLetter(x, y) ==
    \/ x = y
    \/ \E pair \in { <<"t", "T">>, <<"e", "E">>, <<"s", "S">>, <<"p", "P">>, <<"r", "R">>,
                      <<"o", "O">>, <<"d", "D">>, <<"u", "U">>, <<"c", "C">>, <<"i", "I">>,
                      <<"n", "N">>, <<"a", "A">>, <<"g", "G">>, <<"v", "V">>, <<"l", "L">>,
                      <<"m", "M">> } :
          {x, y} = {pair[1], pair[2]}
IsWord(value, words) ==
    /\ value.defined
    /\ \E word \in words :
          /\ Len(value.text) = Len(word)
          /\ \A i \in 1..Len(word) : SameLetter(value.text[i], word[i])
Resolved == env.resolved # "none"

C35_UnrecognisedIsNetworked ==
    Resolved =>
        /\ ( /\ env.CLASS_RESOLVER_OVERRIDE.defined
             /\ ~IsWord(env.CLASS_RESOLVER_OVERRIDE, {test_, prod_, production_}) ) =>
               env.resolved = "prodImplementation"
        /\ ( /\ ~env.CLASS_RESOLVER_OVERRIDE.defined
             /\ env.NODE_ENV.defined
             /\ ~IsWord(env.NODE_ENV, {prod_, production_, staging_, dev_, development_, test_}) ) =>
               env.resolved = "prodImplementation"
        /\ (~env.CLASS_RESOLVER_OVERRIDE.defined /\ ~env.NODE_ENV.defined) =>
               env.resolved = "prodImplementation"

\* the step is a putItem of the item through instance i that changes the
\* instance's table
WroteThrough(i, item) ==
    /\ mock'.instances = mock.instances
    /\ mock'.maps # mock.maps
    /\ mock'.maps = [mock.maps EXCEPT ![mock.instances[i].storage] =
                                         putItem(@, item, PutOpts(NoCond, "NONE")).st]
\* what instance j reads after the step
TableOf(maps, j) == maps[mock.instances[j].storage]

\* C36: an item written through one emulator instance is returned by
\* getItem, scan and getItemCount of every instance with the same table
\* name, whenever the instances were constructed; an instance with another
\* table name sees no change.
C36_SameNameSameTable ==
    [][\A i \in 1..Len(mock.instances) : \A j \in 1..Len(mock.instances) :
          \A item \in MockItems :
              WroteThrough(i, item) =>
                  IF mock.instances[i].tableName = mock.instances[j].tableName
                  THEN /\ getItem(TableOf(mock'.maps, j), buildKey(item)).value = item
                       /\ item \in {TableOf(mock'.maps, j)[n].v :
                                         n \in 1..Len(TableOf(mock'.maps, j))}
                       /\ getItemCount(TableOf(mock'.maps, j))
                              = getItemCount(TableOf(mock'.maps, i))
                  ELSE TableOf(mock'.maps, j) = TableOf(mock.maps, j)]_vars

\* C37: createUser for an email a stored user holds is rejected with
\* ConflictError and writes nothing, and no two stored users have the same
\* email, whatever the interleaving of the callers.
C37_EmailsUnique ==
    /\ \A c \in Callers :
          (users.calls[c].pc = "done" /\ users.calls[c].op = "createUser"
                /\ users.calls[c].held) =>
              (users.calls[c].result = "ConflictError" /\ ~users.calls[c].wrote)
    /\ \A i \in 1..Len(users.userDb) : \A j \in 1..Len(users.userDb) :
          users.userDb[i].v.email = users.userDb[j].v.email => i = j

====
